---------------------------- MODULE Spec2Model ----------------------------
(***************************************************************************)
(* A model of the ArgoDSM coherence engine (MPI backend): the page cache,  *)
(* the sharer/writer directory, the write buffer, the diff write-back, the *)
(* fault handler, release/acquire/self-invalidation, the selective         *)
(* coherence operations, the barrier, the one-sided atomics and the global *)
(* test-and-set lock built on them.                                        *)
(*                                                                         *)
(* Addresses are byte offsets into the global address space, exactly as in *)
(* the source (si_addr - startAddr).  The page size is scaled down from    *)
(* 4096 bytes and bytes hold values 0..MaxVal.  Bitmasks of node ids       *)
(* (1 << id) are sets of node ids: x|y is union, x&y intersection,         *)
(* isPowerOf2(x) is "at most one element".                                 *)
(*                                                                         *)
(* A handler that runs under cachemutex and ibsem is one action.           *)
(***************************************************************************)
EXTENDS Integers, Sequences, FiniteSets, TLC

(***************************** configuration ******************************)
\* number of ArgoDSM nodes (MPI processes)
numtasks == 2
\* pages of global memory served by each node: size_of_chunk / pagesize
PagesPerNode == 3
\* bytes per page (scaled down from 4096)
pagesize == 2
\* pages per cache line
CACHELINE == 1
\* pages in each node's cache
cachesize == 2
\* env::write_buffer_size() and env::write_buffer_write_back_size()
write_buffer_size == 1
write_buffer_write_back_size == 1
\* byte values are 0..MaxVal
MaxVal == 2

Nodes == 0 .. (numtasks - 1)
Vals == 0 .. MaxVal
size_of_chunk == PagesPerNode * pagesize
size_of_all == size_of_chunk * numtasks
GLOBAL_NULL == size_of_all + 1
classificationSize == 2 * cachesize
Addrs == 0 .. (size_of_all - 1)
PageNos == 0 .. ((size_of_all \div pagesize) - 1)
Slots == 0 .. (cachesize - 1)

INVALID == "INVALID"
VALID == "VALID"
CLEAN == "CLEAN"
DIRTY == "DIRTY"
PROT_NONE == "NONE"
PROT_READ == "READ"
PROT_RW == "RW"
\* a virtual page still backed by the anonymous reservation of the address
\* space, whose bytes read as zero
NoMap == -1

(************************* address arithmetic *****************************)
align_backwards(offset, size) == (offset \div size) * size

align_forwards(offset, size) ==
    IF offset = 0 THEN offset ELSE (1 + ((offset - 1) \div size)) * size

getCacheIndex(addr) == (addr \div pagesize) % cachesize

getHomenode(addr) == addr \div size_of_chunk

getOffset(addr) == addr - getHomenode(addr) * size_of_chunk

get_classification_index(addr) ==
    (2 * (addr \div (pagesize * CACHELINE))) % classificationSize

isPowerOf2(x) == Cardinality(x) <= 1

\* layout of the backing file: the cache, the control data, the home memory
cacheControlSize == align_forwards(cachesize, pagesize)
cacheoffset == pagesize * cachesize + cacheControlSize

(****************************** variables *********************************)
VARIABLES
    cacheControl,     \* [node][slot] -> [state, tag, dirty]
    touchedcache,     \* [node][slot] -> 0/1
    cacheData,        \* [node][byte of the cache] -> value
    pagecopy,         \* [node][byte of the cache] -> value (twin pages)
    globalSharers,    \* [node][classidx] -> set of node ids
    globalData,       \* [node][byte of the node's chunk] -> value
    vmap,             \* [node][page] -> backing-file offset mapped there
    prot,             \* [node][page] -> protection of the virtual page
    argo_write_buffer,\* [node] -> sequence of cache indices
    barwindowsused    \* [node][home] -> 0/1

engineVars == <<cacheControl, touchedcache, cacheData, pagecopy,
                globalSharers, globalData, vmap, prot, argo_write_buffer,
                barwindowsused>>

\* the engine state as one value, so that handlers compose
Engine ==
    [cc |-> cacheControl, tc |-> touchedcache, cd |-> cacheData,
     pcp |-> pagecopy, gs |-> globalSharers, gd |-> globalData,
     vm |-> vmap, pr |-> prot, wb |-> argo_write_buffer,
     bw |-> barwindowsused]

SetEngine(E) ==
    /\ cacheControl' = E.cc
    /\ touchedcache' = E.tc
    /\ cacheData' = E.cd
    /\ pagecopy' = E.pcp
    /\ globalSharers' = E.gs
    /\ globalData' = E.gd
    /\ vmap' = E.vm
    /\ prot' = E.pr
    /\ argo_write_buffer' = E.wb
    /\ barwindowsused' = E.bw

\* argo_initialize followed by argo_reset_coherence
EngineInit ==
    /\ cacheControl = [n \in Nodes |-> [s \in Slots |->
                         [state |-> INVALID, tag |-> GLOBAL_NULL, dirty |-> CLEAN]]]
    /\ touchedcache = [n \in Nodes |-> [s \in Slots |-> 0]]
    /\ cacheData = [n \in Nodes |-> [o \in 0 .. (cachesize * pagesize - 1) |-> 0]]
    /\ pagecopy = [n \in Nodes |-> [o \in 0 .. (cachesize * pagesize - 1) |-> 0]]
    /\ globalSharers = [n \in Nodes |-> [c \in 0 .. (classificationSize - 1) |-> {}]]
    /\ globalData = [n \in Nodes |-> [o \in 0 .. (size_of_chunk - 1) |-> 0]]
    /\ vmap = [n \in Nodes |-> [p \in PageNos |-> NoMap]]
    /\ prot = [n \in Nodes |-> [p \in PageNos |-> PROT_NONE]]
    /\ argo_write_buffer = [n \in Nodes |-> << >>]
    /\ barwindowsused = [n \in Nodes |-> [h \in Nodes |-> 0]]


(************************ virtual memory of a node ************************)
PageOf(addr) == addr \div pagesize

\* vm::map_memory(addr, pagesize*CACHELINE, offset, prot)
map_memory(E, n, addr, offset, p) ==
    IF PageOf(addr) \in PageNos
    THEN [E EXCEPT !.vm[n][PageOf(addr)] = offset, !.pr[n][PageOf(addr)] = p]
    ELSE E

\* mprotect(startAddr + addr, pagesize*CACHELINE, prot)
mprotect(E, n, addr, p) ==
    IF PageOf(addr) \in PageNos
    THEN [E EXCEPT !.pr[n][PageOf(addr)] = p]
    ELSE E

\* the byte of node n's backing file at offset o
ReadFile(E, n, o) ==
    IF o < pagesize * cachesize THEN E.cd[n][o] ELSE E.gd[n][o - cacheoffset]

\* what node n finds at global address addr through its page table
ReadVirt(E, n, addr) ==
    LET off == E.vm[n][PageOf(addr)]
    IN  IF off = NoMap THEN 0 ELSE ReadFile(E, n, off + (addr % pagesize))

\* a store of node n to global address addr through its page table
WriteVirt(E, n, addr, v) ==
    LET off == E.vm[n][PageOf(addr)]
        o == off + (addr % pagesize)
    IN  IF off = NoMap
        THEN E
        ELSE IF o < pagesize * cachesize
        THEN [E EXCEPT !.cd[n][o] = v]
        ELSE [E EXCEPT !.gd[n][o - cacheoffset] = v]

(**************************** diff write-back *****************************)
\* every byte of the page at addr that differs from the twin in slot index
\* is put to the home node of addr
storepageDIFF(E, n, index, addr) ==
    LET homenode == getHomenode(addr)
        offset == getOffset(addr)
        real(i) == ReadVirt(E, n, addr + i)
        copy(i) == E.pcp[n][index * pagesize + i]
    IN  [E EXCEPT !.bw[n][homenode] = 1,
                  !.gd[homenode] =
                      [o \in DOMAIN @ |->
                          IF /\ o >= offset
                             /\ o < offset + pagesize
                             /\ real(o - offset) # copy(o - offset)
                          THEN real(o - offset)
                          ELSE @[o]]]

\* the same loop on the bytes of one page: home is the page at its home
\* node, real the cached page and copy its twin
put_whole_page(home, real, copy) == real

DiffPut(home, real, copy) ==
    [i \in DOMAIN home |-> IF real[i] # copy[i] THEN real[i] ELSE home[i]]

\* MPI_Win_unlock of every data window used for write-backs
CloseWindows(E, n) == [E EXCEPT !.bw[n] = [h \in Nodes |-> 0]]

(****************************** write buffer ******************************)
_max_size == write_buffer_size \div CACHELINE
_write_back_size == write_buffer_write_back_size \div CACHELINE

has(buffer, val) == \E i \in 1 .. Len(buffer) : buffer[i] = val

sort(buffer) == SortSeq(buffer, LAMBDA a, b : a < b)

sort_first(buffer) ==
    sort(SubSeq(buffer, 1, _write_back_size))
        \o SubSeq(buffer, _write_back_size + 1, Len(buffer))

\* write back the cached page of one buffer entry
WriteBackEntry(E, n, cache_index) ==
    LET page_address == E.cc[n][cache_index].tag
        E1 == mprotect(E, n, page_address, PROT_READ)
        E2 == [E1 EXCEPT !.cc[n][cache_index].dirty = CLEAN]
    IN  storepageDIFF(E2, n, cache_index, page_address)

\* pop and write back the first k entries of node n's buffer
RECURSIVE PopAndWriteBack(_, _, _)
PopAndWriteBack(E, n, k) ==
    IF k = 0 \/ E.wb[n] = << >>
    THEN E
    ELSE PopAndWriteBack(
             WriteBackEntry([E EXCEPT !.wb[n] = Tail(@)], n, Head(E.wb[n])),
             n, k - 1)

flush_partial(E, n) ==
    LET E1 == [E EXCEPT !.wb[n] = sort_first(@)]
    IN  CloseWindows(PopAndWriteBack(E1, n, _write_back_size), n)

\* a flush that empties the buffer without writing the pages back
flush_discard(E, n) == [E EXCEPT !.wb[n] = << >>]

flush(E, n) ==
    LET E1 == [E EXCEPT !.wb[n] = sort(@)]
    IN  CloseWindows(PopAndWriteBack(E1, n, Len(E1.wb[n])), n)

erase(E, n, val) ==
    LET b == E.wb[n]
    IN  IF has(b, val)
        THEN LET i == CHOOSE j \in 1 .. Len(b) :
                          b[j] = val /\ \A k \in 1 .. (j - 1) : b[k] # val
             IN  [E EXCEPT !.wb[n] = SubSeq(b, 1, i - 1) \o SubSeq(b, i + 1, Len(b))]
        ELSE E

\* an add that drops the index when the buffer is full
add_if_room(E, n, val) ==
    IF has(E.wb[n], val) \/ Len(E.wb[n]) >= _max_size
    THEN E
    ELSE [E EXCEPT !.wb[n] = Append(@, val)]

add(E, n, val) ==
    IF has(E.wb[n], val)
    THEN E
    ELSE LET E1 == IF Len(E.wb[n]) >= _max_size THEN flush_partial(E, n) ELSE E
         IN  [E1 EXCEPT !.wb[n] = Append(@, val)]

(******************************* directory ********************************)
\* (1 << n) == mask for a mask with one bit: the rank of that bit
RankOf(mask) == CHOOSE m \in Nodes : mask = {m}

\* an accumulate that replaces the word instead of or-ing into it
AccumulateReplace(E, target, idx, mask) ==
    [E EXCEPT !.gs[target][idx] = mask]

\* MPI_Accumulate(&id, ..., target, idx, ..., MPI_BOR, sharerWindow)
Accumulate(E, target, idx, mask) ==
    [E EXCEPT !.gs[target][idx] = @ \cup mask]

(************************** loading a cache line **************************)
\* an eviction that reuses the slot without writing the old line back
EvictSlotNoDiff(E, n, startidx, lineAddr) ==
    LET oldtag == E.cc[n][startidx].tag
    IN  IF oldtag # lineAddr /\ oldtag # GLOBAL_NULL
        THEN LET E1 == erase(E, n, startidx)
                 E3 == [E1 EXCEPT !.cc[n][startidx] =
                           [state |-> INVALID, tag |-> lineAddr, dirty |-> CLEAN]]
                 E4 == map_memory(E3, n, lineAddr, pagesize * startidx, PROT_NONE)
             IN  mprotect(E4, n, oldtag, PROT_NONE)
        ELSE E

\* the part of load_cache_entry and prefetch_cache_entry that evicts the
\* line that occupies the slot
EvictSlot(E, n, startidx, lineAddr) ==
    LET oldtag == E.cc[n][startidx].tag
    IN  IF oldtag # lineAddr /\ oldtag # GLOBAL_NULL
        THEN LET E1 == IF E.cc[n][startidx].dirty = DIRTY
                       THEN erase(storepageDIFF(mprotect(E, n, oldtag, PROT_READ),
                                                n, startidx, oldtag),
                                  n, startidx)
                       ELSE E
                 E2 == CloseWindows(E1, n)
                 E3 == [E2 EXCEPT !.cc[n][startidx] =
                           [state |-> INVALID, tag |-> lineAddr, dirty |-> CLEAN]]
                 E4 == map_memory(E3, n, lineAddr, pagesize * startidx, PROT_NONE)
             IN  mprotect(E4, n, oldtag, PROT_NONE)
        ELSE E

\* the part of load_cache_entry that registers the node as a sharer at the
\* home node, merges the home's entry and tells a private holder
RegisterSharer(E, n, lineAddr, skipOwnBit) ==
    LET classidx == get_classification_index(lineAddr)
        homenode == getHomenode(lineAddr)
        prevsharer == E.gs[n][classidx] \cap {n}
        tempsharer == IF prevsharer = {} THEN E.gs[homenode][classidx] ELSE {}
        E1 == IF prevsharer = {} THEN Accumulate(E, homenode, classidx, {n}) ELSE E
        tempwriter == IF prevsharer = {} THEN E1.gs[homenode][classidx + 1] ELSE {}
        E2 == [E1 EXCEPT !.gs[n][classidx] = @ \cup tempsharer,
                         !.gs[n][classidx + 1] = @ \cup tempwriter]
        ownid == tempsharer \ {n}
    IN  IF /\ isPowerOf2(ownid)
           /\ (skipOwnBit \/ tempsharer # {n})
           /\ prevsharer = {}
           /\ \E m \in Nodes : ownid = {m}
        THEN Accumulate(E2, RankOf(ownid), classidx, {n})
        ELSE E2

\* the part of load_cache_entry that fetches the line and maps it read-only
FetchLine(E, n, startidx, lineAddr) ==
    LET homenode == getHomenode(lineAddr)
        offset == getOffset(lineAddr)
        E1 == [E EXCEPT !.cd[n] =
                  [o \in DOMAIN @ |->
                      IF o >= startidx * pagesize /\ o < (startidx + 1) * pagesize
                      THEN E.gd[homenode][offset + (o - startidx * pagesize)]
                      ELSE @[o]]]
        E2 == IF E1.cc[n][startidx].tag = GLOBAL_NULL
              THEN [map_memory(E1, n, lineAddr, pagesize * startidx, PROT_READ)
                       EXCEPT !.cc[n][startidx].tag = lineAddr]
              ELSE mprotect(E1, n, lineAddr, PROT_READ)
    IN  [E2 EXCEPT !.tc[n][startidx] = 1,
                   !.cc[n][startidx].state = VALID,
                   !.cc[n][startidx].dirty = CLEAN]

LoadLine(E, n, tag, line, skipOwnBit) ==
    LET blocksize == pagesize * CACHELINE
        lineAddr == (tag \div blocksize) * blocksize
        startidx == (line \div CACHELINE) * CACHELINE
    IN  IF tag >= size_of_all \/ line >= cachesize
        THEN E
        ELSE IF E.cc[n][startidx].tag = lineAddr /\ E.cc[n][startidx].state # INVALID
        THEN E
        ELSE FetchLine(RegisterSharer(EvictSlot(E, n, startidx, lineAddr),
                                      n, lineAddr, skipOwnBit),
                       n, startidx, lineAddr)

load_cache_entry(E, n, loadtag, loadline) == LoadLine(E, n, loadtag, loadline, FALSE)

\* as load_cache_entry, but the test for a private holder lacks "tempsharer != id"
prefetch_cache_entry(E, n, prefetchtag, prefetchline) ==
    LoadLine(E, n, prefetchtag, prefetchline, TRUE)

(***************************** fault handler ******************************)
\* the writer escalation of the handler: tell the single other writer, or,
\* as the first writer, tell every sharer
NotifyWriters(E, n, classidx, writers, sharers) ==
    IF writers # {n} /\ writers # {} /\ isPowerOf2(writers \ {n})
    THEN Accumulate(E, RankOf(writers \ {n}), classidx + 1, {n})
    ELSE IF writers = {n} \/ writers = {}
    THEN [E EXCEPT !.gs =
             [m \in Nodes |->
                 IF m # n /\ m \in sharers
                 THEN [@[m] EXCEPT ![classidx + 1] = @ \cup {n}]
                 ELSE @[m]]]
    ELSE E

\* handler, "page is local": the page is mapped straight to the home memory
HandlerLocal(E, n, aligned_access_offset) ==
    LET classidx == get_classification_index(aligned_access_offset)
        offset == getOffset(aligned_access_offset)
        sharers == E.gs[n][classidx]
        writers == E.gs[n][classidx + 1]
    IN  IF sharers \cap {n} # {n}
        THEN LET E1 == Accumulate(E, n, classidx, {n})
                 E2 == IF sharers # {} /\ sharers # {n} /\ isPowerOf2(sharers)
                       THEN Accumulate(E1, RankOf(sharers \ {n}), classidx, {n})
                       ELSE E1
             IN  map_memory(E2, n, aligned_access_offset, cacheoffset + offset,
                            PROT_READ)
        ELSE LET E1 == Accumulate(E, n, classidx + 1, {n})
                 E2 == NotifyWriters(E1, n, classidx, writers, sharers)
             IN  map_memory(E2, n, aligned_access_offset, cacheoffset + offset,
                            PROT_RW)

\* a write upgrade that takes no twin of the page
WriteUpgradeNoTwin(E, n, aligned_access_offset) ==
    LET startIndex == getCacheIndex(aligned_access_offset)
        line == (startIndex \div CACHELINE) * CACHELINE
        E1 == [E EXCEPT !.tc[n][line] = 1, !.cc[n][line].dirty = DIRTY]
    IN  mprotect(add(E1, n, startIndex), n, aligned_access_offset, PROT_RW)

\* handler, write on a valid read-only line: twin the page, register as writer
WriteUpgrade(E, n, aligned_access_offset) ==
    LET classidx == get_classification_index(aligned_access_offset)
        startIndex == getCacheIndex(aligned_access_offset)
        homenode == getHomenode(aligned_access_offset)
        line == (startIndex \div CACHELINE) * CACHELINE
        E1 == [E EXCEPT !.tc[n][line] = 1, !.cc[n][line].dirty = DIRTY]
        writers == E1.gs[n][classidx + 1]
        E2 == IF writers # {n} /\ isPowerOf2(writers)
              THEN LET Ea == Accumulate(E1, n, classidx + 1, {n})
                       homewriters == Ea.gs[homenode][classidx + 1]
                       Eb == Accumulate(Ea, homenode, classidx + 1, {n})
                       homesharers == Eb.gs[homenode][classidx]
                       Ec == [Eb EXCEPT !.gs[n][classidx] = @ \cup homesharers]
                   IN  NotifyWriters(Ec, n, classidx, homewriters \cup {n},
                                     homesharers)
              ELSE E1
        E3 == [E2 EXCEPT !.pcp[n] =
                  [o \in DOMAIN @ |->
                      IF o >= line * pagesize /\ o < (line + 1) * pagesize
                      THEN ReadVirt(E2, n, aligned_access_offset + (o - line * pagesize))
                      ELSE @[o]]]
    IN  mprotect(add(E3, n, startIndex), n, aligned_access_offset, PROT_RW)

\* the SIGSEGV handler of node n for a fault at global address access_offset
handler(E, n, access_offset) ==
    LET aligned_access_offset == align_backwards(access_offset, CACHELINE * pagesize)
        startIndex == getCacheIndex(aligned_access_offset)
        line == (startIndex \div CACHELINE) * CACHELINE
        state == E.cc[n][startIndex].state
        tag == E.cc[n][startIndex].tag
    IN  IF getHomenode(aligned_access_offset) = n
        THEN HandlerLocal(E, n, aligned_access_offset)
        ELSE IF state = INVALID \/ (tag # aligned_access_offset /\ tag # GLOBAL_NULL)
        THEN prefetch_cache_entry(
                 load_cache_entry(E, n, aligned_access_offset, startIndex % cachesize),
                 n, aligned_access_offset + CACHELINE * pagesize,
                 (startIndex + CACHELINE) % cachesize)
        ELSE IF E.cc[n][line].dirty = DIRTY
        THEN E
        ELSE WriteUpgrade(E, n, aligned_access_offset)

(********************** self-invalidation, fences *************************)
\* the directory says node n may keep the line: it is the single writer, or
\* there is no writer and n is a sharer
MayKeep(E, n, classidx) ==
    \/ E.gs[n][classidx + 1] = {n}
    \/ E.gs[n][classidx + 1] = {} /\ n \in E.gs[n][classidx]

RECURSIVE SelfInvalidateFrom(_, _, _, _)
SelfInvalidateFrom(E, n, i, flushed) ==
    IF i >= cachesize
    THEN E
    ELSE IF E.tc[n][i] = 0
    THEN SelfInvalidateFrom(E, n, i + CACHELINE, flushed)
    ELSE LET lineAddr == align_backwards(E.cc[n][i].tag, CACHELINE * pagesize)
             classidx == get_classification_index(lineAddr)
             doflush == flushed = 0 /\ E.cc[n][i].dirty = DIRTY
             E1 == IF doflush THEN flush(E, n) ELSE E
             E2 == IF MayKeep(E1, n, classidx)
                   THEN [E1 EXCEPT !.tc[n][i] = 1]
                   ELSE mprotect([E1 EXCEPT !.cc[n][i].dirty = CLEAN,
                                            !.cc[n][i].state = INVALID,
                                            !.tc[n][i] = 0],
                                 n, lineAddr, PROT_NONE)
         IN  SelfInvalidateFrom(E2, n, i + CACHELINE,
                                IF doflush THEN 1 ELSE flushed)

self_invalidation(E, n) == SelfInvalidateFrom(E, n, 0, 0)

argo_acquire(E, n) == self_invalidation(E, n)

argo_release(E, n) == flush(E, n)

(************************** selective coherence ***************************)
\* the downgrade that both selective operations apply to the cache slot of
\* page_address: the test is on the slot's dirty flag alone
SelectiveDowngrade(E, n, page_address) ==
    LET cache_index == getCacheIndex(page_address)
    IN  IF E.cc[n][cache_index].dirty = DIRTY
        THEN LET E1 == mprotect(E, n, page_address, PROT_READ)
                 E2 == storepageDIFF(E1, n, cache_index, page_address)
                 E3 == erase(E2, n, cache_index)
             IN  [E3 EXCEPT !.cc[n][cache_index].dirty = CLEAN]
        ELSE E

\* the invalidation selective_acquire applies to the cache slot of page_address
SelectiveInvalidate(E, n, page_address) ==
    LET cache_index == getCacheIndex(page_address)
        classification_index == get_classification_index(page_address)
    IN  IF MayKeep(E, n, classification_index)
        THEN [E EXCEPT !.tc[n][cache_index] = 1]
        ELSE mprotect([E EXCEPT !.cc[n][cache_index].dirty = CLEAN,
                                !.cc[n][cache_index].state = INVALID,
                                !.tc[n][cache_index] = 0],
                      n, page_address, PROT_NONE)

\* the page loops of the two operations, from page_address up to limit
RECURSIVE ReleasePages(_, _, _, _)
ReleasePages(E, n, page_address, limit) ==
    IF page_address >= limit
    THEN E
    ELSE ReleasePages(SelectiveDowngrade(E, n, page_address), n,
                      page_address + pagesize * CACHELINE, limit)

RECURSIVE AcquirePages(_, _, _, _)
AcquirePages(E, n, page_address, limit) ==
    IF page_address >= limit
    THEN E
    ELSE AcquirePages(
             SelectiveInvalidate(SelectiveDowngrade(E, n, page_address),
                                 n, page_address),
             n, page_address + pagesize * CACHELINE, limit)

_selective_acquire(E, n, addr, size) ==
    LET block_size == pagesize * CACHELINE
        page_misalignment == addr % block_size
        argo_address == (addr \div block_size) * block_size
    IN  IF size = 0
        THEN E
        ELSE CloseWindows(AcquirePages(E, n, argo_address,
                                       argo_address + page_misalignment + size), n)

_selective_release(E, n, addr, size) ==
    LET block_size == pagesize * CACHELINE
        page_misalignment == addr % block_size
        argo_address == (addr \div block_size) * block_size
    IN  IF size = 0
        THEN E
        ELSE CloseWindows(ReleasePages(E, n, argo_address,
                                       argo_address + page_misalignment + size), n)

(******************************** atomics *********************************)
\* the word of home memory a global_ptr designates
HomeWord(E, obj) == E.gd[getHomenode(obj)][getOffset(obj)]

\* an exchange that fetches the word but does not replace it
FetchOnly(E, obj, desired) == E

\* MPI_Fetch_and_op(..., MPI_REPLACE, ...)
_exchange(E, obj, desired) ==
    [E EXCEPT !.gd[getHomenode(obj)][getOffset(obj)] = desired]

\* MPI_Put
_store(E, obj, desired) ==
    [E EXCEPT !.gd[getHomenode(obj)][getOffset(obj)] = desired]

\* MPI_Get: the value fetched
_load(E, obj) == HomeWord(E, obj)

\* a compare-and-swap that replaces the word whatever it holds
BlindSwap(E, obj, desired, expected) == _exchange(E, obj, desired)

\* MPI_Compare_and_swap
_compare_exchange(E, obj, desired, expected) ==
    IF HomeWord(E, obj) = expected
    THEN [E EXCEPT !.gd[getHomenode(obj)][getOffset(obj)] = desired]
    ELSE E

\* a fetch-and-add made of a get and a put of the sum of a stale operand
StaleSum(E, obj, value) == _exchange(E, obj, value)

\* MPI_Fetch_and_op(..., MPI_SUM, ...)
_fetch_add(E, obj, value) ==
    [E EXCEPT !.gd[getHomenode(obj)][getOffset(obj)] = @ + value]

(***************************** memory accesses ****************************)
\* faults one access may take before the page permits it
MaxFaults == 3

Permits(p, write) == IF write THEN p = PROT_RW ELSE p \in {PROT_READ, PROT_RW}

\* the access faults and the handler runs until the page permits the access
RECURSIVE Touch(_, _, _, _, _)
Touch(E, n, addr, write, fuel) ==
    IF Permits(E.pr[n][PageOf(addr)], write) \/ fuel = 0
    THEN E
    ELSE Touch(handler(E, n, addr), n, addr, write, fuel - 1)

\* the engine after node n loaded from addr, and the value loaded
LoadState(E, n, addr) == Touch(E, n, addr, FALSE, MaxFaults)
LoadValue(E, n, addr) == ReadVirt(LoadState(E, n, addr), n, addr)

\* the engine after node n stored v to addr
StoreState(E, n, addr, v) == WriteVirt(Touch(E, n, addr, TRUE, MaxFaults), n, addr, v)

CanLoad(E, n, addr) == Permits(LoadState(E, n, addr).pr[n][PageOf(addr)], FALSE)
CanStore(E, n, addr) ==
    Permits(Touch(E, n, addr, TRUE, MaxFaults).pr[n][PageOf(addr)], TRUE)

(************************** threads and programs **************************)
\* application threads a node can run
threadsPerNode == 2
Threads == Nodes \X (1 .. threadsPerNode)
NodeOf(t) == t[1]
Main(n) == <<n, 1>>
NoThread == << >>
\* an id that no node has
NoNode == numtasks

VARIABLES
    pc,            \* [thread] -> where the thread is ("off": not started)
    nbar,          \* [thread] -> barriers the thread has returned from
    barriermutex,  \* [node] -> the thread holding barriermutex, or NoThread
    reg,           \* [node] -> the atomic operation the node is executing
    shadow,        \* ghost: [addr] -> the value the program stored last, and who
    acc,           \* ghost: [addr] -> the nodes that accessed it since the last barrier
    obs,           \* ghost: the last load, with the value the program expects
    ops,           \* ordinary accesses the program may still make
    param          \* the parameters of the program, chosen at the start

progVars == <<pc, nbar, barriermutex, reg, shadow, acc, obs, ops, param>>

\* the node-local locks and the cohort lock
VARIABLES
    _tail,            \* [mcs_lock] -> the thread whose node is the tail, or NoThread
    selfs,            \* [thread][mcs_lock] -> the thread's mcs_node: next, locked
    in_counter,       \* [node] -> in_counter of the node's ticket_lock
    out_counter,      \* [node] -> out_counter of the node's ticket_lock
    has_global_lock,  \* [node] -> field of the node's cohort_lock
    handovers,        \* [node] -> handovers[0] of the node's cohort_lock
    numahandover,     \* [node] -> field of the node's cohort_lock
    nodelockowner,    \* [node] -> field of the node's cohort_lock
    counter,          \* the counter of the MCS tests, in local memory
    local,            \* [thread] -> the local variables of the thread
    queue             \* ghost: [mcs_lock] -> the threads in the order of their exchanges

lockVars == <<_tail, selfs, in_counter, out_counter, has_global_lock,
              handovers, numahandover, nodelockowner, counter, local, queue>>

\* the data distribution policies
VARIABLES
    nodes,                  \* base_distribution::nodes
    total_size,             \* base_distribution::total_size
    size_per_node,          \* base_distribution::size_per_node
    allocation_block_size,  \* env::allocation_block_size(), in pages
    looked,                 \* the last lookup of a policy and what it returned
    global_owners_dir,      \* [node] -> the node's window of the owners directory
    global_offsets_tbl,     \* [node] -> the node's window of the offsets table
    ftl,                    \* [node] -> the call that holds the node's owners_mutex
    claimed                 \* ghost: [page] -> the nodes whose CAS claimed the page

distVars == <<nodes, total_size, size_per_node, allocation_block_size, looked>>
ftVars == <<global_owners_dir, global_offsets_tbl, ftl, claimed>>

\* the global memory pool
VARIABLES
    mempool,          \* global_memory_pool: *offset, max_size, holder of the lock
    mpl,              \* [node] -> the node's call of reserve or available
    mpcalls           \* calls made so far

poolVars == <<mempool, mpl, mpcalls>>

\* the barrier of the singlenode backend
VARIABLES
    barrier_counter,  \* barrier_counter
    barrier_flag,     \* barrier_flag
    sbl,              \* [thread] -> where the thread is and in which barrier
    sbprog,           \* the threads that call the first, second, ... barrier
    arrived,          \* ghost: [barrier] -> the threads that have entered it
    opened            \* ghost: [barrier] -> all its threads have left its wait

sbVars == <<barrier_counter, barrier_flag, sbl, sbprog, arrived, opened>>

\* a write_buffer<std::size_t> on its own
VARIABLES
    wbuf,             \* the object: _buffer, _max_size, _write_back_size
    wbcall,           \* the last member function called, and its argument
    written           \* the cache indices that call wrote back, in order

wbufVars == <<wbuf, wbcall, written>>

\* one page of a third node's memory and the lines two nodes cache of it
VARIABLES
    homePage,         \* the bytes of the page in its home node's globalData
    line,             \* per caching node: state, dirty, cacheData, pagecopy
    stored,           \* per caching node and byte: the value it stored last
    mergeOps          \* the operations done so far

mergeVars == <<homePage, line, stored, mergeOps>>

\* the threads of one node and the locks of its page cache
VARIABLES
    cachemutex,       \* the thread that holds the cache lock, or 0
    ibsem,            \* the value of the semaphore that serializes MPI calls
    script,           \* per thread: the rest of the call it is in
    lkcall,           \* per thread: the call it made last
    holds,            \* per thread: the locks it holds, in the order taken
    returned          \* the branches of the handler that have returned

mutexVars == <<cachemutex, ibsem, script, lkcall, holds, returned>>
extVars == <<wbufVars, mergeVars, mutexVars>>

\* the state of the components that the DSM programs do not use
restVars == <<distVars, ftVars, poolVars, sbVars, extVars>>
otherVars == <<lockVars, restVars>>
vars == <<engineVars, progVars, otherVars>>

\* the first-level locks of StressMCSMultipleLocks (4 in the test)
locks == 2
\* the mcs_locks: 0 .. locks-1 are mcs_lock[i] of the tests and local_lock[0]
\* of the cohort_lock of node i, the last one is global_lock of the test
McsLocks == 0 .. locks
\* no NUMA node has the node_lock
NO_OWNER == -1

\* the locals of a thread: the mcs_lock it operates on and where the call
\* returns to, predecessor, ticket, the result of try_lock, the value read
\* from the counter and the iterations completed
NoLocal == [lock |-> 0, ret |-> "run", predecessor |-> NoThread, ticket |-> 0,
            res |-> FALSE, tmp |-> 0, done |-> 0]

\* mcs_lock(), mcs_node(), ticket_lock() and cohort_lock()
LockVarsInit ==
    /\ _tail = [l \in McsLocks |-> NoThread]
    /\ selfs = [t \in Threads |->
                   [l \in McsLocks |-> [next |-> NoThread, locked |-> FALSE]]]
    /\ in_counter = [n \in Nodes |-> 0]
    /\ out_counter = [n \in Nodes |-> 0]
    /\ has_global_lock = [n \in Nodes |-> FALSE]
    /\ handovers = [n \in Nodes |-> 0]
    /\ numahandover = [n \in Nodes |-> 0]
    /\ nodelockowner = [n \in Nodes |-> NO_OWNER]
    /\ counter = 0
    /\ local = [t \in Threads |-> NoLocal]
    /\ queue = [l \in McsLocks |-> << >>]

\* data_distribution::granularity (scaled down from 0x1000)
granularity == pagesize
\* what a policy returns instead of a node or an offset when it throws
msg_fetch_homenode_fail == -1
msg_fetch_offset_fail == -2
msg_first_touch_fail == -3
\* first_touch_distribution: global_null = total_size + 1
global_null == total_size + 1

NoLook == [policy |-> "none", ptr |-> 0, homenode |-> 0, local_offset |-> 0]
NoCall == [pc |-> "idle", op |-> "none", ptr |-> 0, addr |-> 0, drift |-> 0,
           ownership |-> 0, page_info |-> <<0, 0, 0>>, result |-> 0, n |-> 0,
           searched |-> 0, offset |-> 0, homenode |-> 0, succeeded |-> FALSE,
           ret |-> 0, calls |-> 0]

\* base_distribution::set_memory_space(n, start, size) and the block size
set_memory_space(n, size, block) ==
    /\ nodes = n
    /\ total_size = size
    /\ size_per_node = size \div n
    /\ allocation_block_size = block
    /\ looked = NoLook

\* the windows before any page is touched: no page has an owner and no
\* backing offset is taken
FtTablesInit ==
    /\ global_owners_dir =
           [r \in 0 .. (nodes - 1) |->
               [i \in 0 .. (3 * (total_size \div granularity) - 1) |-> global_null]]
    /\ global_offsets_tbl = [r \in 0 .. (nodes - 1) |-> [n \in 0 .. (nodes - 1) |-> 0]]
    /\ ftl = [r \in 0 .. (nodes - 1) |-> NoCall]
    /\ claimed = [p \in 0 .. ((total_size \div granularity) - 1) |-> {}]

\* global_memory_pool::reserved (scaled down from 4096)
reserved == 2
NoPoolCall == [pc |-> "idle", op |-> "none", size |-> 0, seen |-> 0,
               ret |-> "none", ptr |-> 0, avail |-> 0]

\* global_memory_pool(): max_size = backend::global_size(), *offset = reserved
PoolInit ==
    /\ mempool = [offset |-> reserved, max_size |-> size_of_all, lock |-> NoNode]
    /\ mpl = [n \in Nodes |-> NoPoolCall]
    /\ mpcalls = 0

\* threads that call the barrier of the singlenode backend
sbThreads == 3
SbThreads == 1 .. sbThreads
\* barriers in a row
SbRounds == 3
NoBarrier == [pc |-> "out", k |-> 0]

\* barrier_counter{0}, barrier_flag{false}; prog is the program
SbInit(prog) ==
    /\ barrier_counter = 0
    /\ barrier_flag = FALSE
    /\ sbl = [t \in SbThreads |-> NoBarrier]
    /\ sbprog = prog
    /\ arrived = [k \in 1 .. SbRounds |-> {}]
    /\ opened = [k \in 1 .. SbRounds |-> FALSE]

\* env::init: the write-back size is limited to the write buffer size
env_init(write_buffer_size_env, write_back_size_env) ==
    [write_buffer_size |-> write_buffer_size_env,
     write_buffer_write_back_size |->
         IF write_back_size_env > write_buffer_size_env
         THEN write_buffer_size_env
         ELSE write_back_size_env]

\* write_buffer::write_buffer()
write_buffer_new(env) ==
    [buffer |-> << >>,
     max_size |-> env.write_buffer_size \div CACHELINE,
     write_back_size |-> env.write_buffer_write_back_size \div CACHELINE]

NoWbCall == [op |-> "none", val |-> 0]

WbufInit(env) ==
    /\ wbuf = write_buffer_new(env)
    /\ wbcall = NoWbCall
    /\ written = << >>

MergeWriters == 2
MergeNodes == 1 .. MergeWriters
PageBytes == 0 .. (pagesize * CACHELINE - 1)
NoVal == MaxVal + 1

\* the page is zero at its home and no node caches it
MergeInit ==
    /\ homePage = [i \in PageBytes |-> 0]
    /\ line = [w \in MergeNodes |->
                  [state |-> INVALID, dirty |-> CLEAN,
                   cacheData |-> [i \in PageBytes |-> 0],
                   pagecopy |-> [i \in PageBytes |-> 0]]]
    /\ stored = [w \in MergeNodes |-> [i \in PageBytes |-> NoVal]]
    /\ mergeOps = 0

lkThreads == 2
LkThreads == 1 .. lkThreads
NoLkCall == [op |-> "none", addr |-> 0, size |-> 0, branch |-> "none"]

\* PTHREAD_MUTEX_INITIALIZER, sem_init(&ibsem, 0, 1), no thread in a call
MutexInit ==
    /\ cachemutex = 0
    /\ ibsem = 1
    /\ script = [t \in LkThreads |-> << >>]
    /\ lkcall = [t \in LkThreads |-> NoLkCall]
    /\ holds = [t \in LkThreads |-> << >>]
    /\ returned = {}

ExtInit ==
    /\ WbufInit(env_init(write_buffer_size, write_buffer_write_back_size))
    /\ MergeInit
    /\ MutexInit

RestInit ==
    /\ set_memory_space(numtasks, size_of_all, 1)
    /\ FtTablesInit
    /\ PoolInit
    /\ SbInit(<< >>)
    /\ ExtInit

OtherInit == LockVarsInit /\ RestInit

NoObs == [val |-> 0, exp |-> 0, cross |-> FALSE]
NoAcc == [w |-> NoNode, r |-> {}]
NoReg == [stage |-> "idle", op |-> "none", order |-> "relaxed", obj |-> 0,
          desired |-> 0, expected |-> 0, out |-> 0, ok |-> FALSE,
          swapped |-> FALSE, wins |-> 0, rets |-> << >>]

\* nthreads threads run on every node, the program may make budget accesses
ProgInit(nthreads, budget) ==
    /\ pc = [t \in Threads |-> IF t[2] <= nthreads THEN "run" ELSE "off"]
    /\ nbar = [t \in Threads |-> 0]
    /\ barriermutex = [n \in Nodes |-> NoThread]
    /\ reg = [n \in Nodes |-> NoReg]
    /\ shadow = [a \in Addrs |-> [val |-> 0, node |-> NoNode]]
    /\ acc = [a \in Addrs |-> NoAcc]
    /\ obs = NoObs
    /\ ops = budget

\* the threads of node n that take part in the program
ThreadsOf(n) == {t \in Threads : NodeOf(t) = n /\ pc[t] # "off"}

\* the first byte of page p, and the byte after it
FirstByte(p) == p * pagesize
\* node n's first page, and the page of the next node that shares its cache
\* slot and directory entry
OwnPage(n) == n * PagesPerNode
AliasPage(n) ==
    CHOOSE p \in PageNos :
        /\ getHomenode(FirstByte(p)) = (n + 1) % numtasks
        /\ getCacheIndex(FirstByte(p)) = getCacheIndex(FirstByte(OwnPage(n)))

\* node n loads from a: the engine after it and what the program sees
DoLoad(n, a) ==
    /\ CanLoad(Engine, n, a)
    /\ SetEngine(LoadState(Engine, n, a))
    /\ obs' = [val |-> LoadValue(Engine, n, a),
               exp |-> shadow[a].val,
               cross |-> shadow[a].node \notin {NoNode, n}]

\* node n stores v to a
DoStore(n, a, v) ==
    /\ CanStore(Engine, n, a)
    /\ SetEngine(StoreState(Engine, n, a, v))
    /\ shadow' = [shadow EXCEPT ![a] = [val |-> v, node |-> n]]

\* the value a store writes: one that differs from what the address holds
NextVal(a) == (shadow[a].val + 1) % (MaxVal + 1)

(********************* a data-race-free barrier program *******************)
\* accesses one run of the program makes, and barriers each thread calls
MaxOps == 4
MaxBarriers == 2

\* the addresses the program uses: the first byte of node 0's first page and
\* the bytes of the page of node 1 that shares its cache slot
ProgAddrs ==
    {FirstByte(OwnPage(0))}
        \cup {a \in Addrs : PageOf(a) = AliasPage(0) /\ a % pagesize < 2}

\* a load of thread t that races with no store of another node
Load(t, a) ==
    /\ ops > 0
    /\ acc[a].w \in {NoNode, NodeOf(t)}
    /\ DoLoad(NodeOf(t), a)
    /\ acc' = [acc EXCEPT ![a].r = @ \cup {NodeOf(t)}]
    /\ ops' = ops - 1
    /\ UNCHANGED <<nbar, barriermutex, reg, shadow, param, otherVars>>

Read(t, a) == pc[t] = "run" /\ Load(t, a) /\ UNCHANGED pc

\* a store of thread t that races with no access of another node
Store(t, a) ==
    /\ ops > 0
    /\ acc[a].w \in {NoNode, NodeOf(t)}
    /\ acc[a].r \subseteq {NodeOf(t)}
    /\ DoStore(NodeOf(t), a, NextVal(a))
    /\ acc' = [acc EXCEPT ![a].w = NodeOf(t)]
    /\ ops' = ops - 1
    /\ UNCHANGED <<nbar, barriermutex, reg, obs, param, otherVars>>

Write(t, a) == pc[t] = "run" /\ Store(t, a) /\ UNCHANGED pc

(******************************** barrier *********************************)
\* swdsm_argo_barrier: the thread arrives at the first pthread_barrier_wait
BarrierArrive(t) ==
    /\ pc[t] = "run"
    /\ nbar[t] < param.barriers
    /\ pc' = [pc EXCEPT ![t] = "wait1"]
    /\ UNCHANGED <<engineVars, nbar, barriermutex, reg, shadow, acc, obs, ops, param, otherVars>>

\* the first pthread_barrier_wait has returned in every thread of t's node;
\* with a single node the barrier is over.  Thread t is the one whose
\* pthread_mutex_trylock(&barriermutex) succeeds: it flushes the write buffer
\* and enters MPI_Barrier, the others go on to the second pthread_barrier_wait
BarrierFlush(t) ==
    /\ pc[t] = "wait1"
    /\ \A u \in ThreadsOf(NodeOf(t)) : pc[u] = "wait1"
    /\ IF numtasks = 1 \/ barriermutex[NodeOf(t)] # NoThread
       THEN /\ pc' = [u \in Threads |->
                        IF u \in ThreadsOf(NodeOf(t))
                        THEN (IF numtasks = 1 THEN "run" ELSE "exit")
                        ELSE pc[u]]
            /\ nbar' = [u \in Threads |->
                          IF u \in ThreadsOf(NodeOf(t)) /\ numtasks = 1
                          THEN nbar[u] + 1 ELSE nbar[u]]
            /\ UNCHANGED <<engineVars, barriermutex>>
       ELSE /\ barriermutex' = [barriermutex EXCEPT ![NodeOf(t)] = t]
            /\ SetEngine(flush(Engine, NodeOf(t)))
            /\ pc' = [u \in Threads |->
                        IF u = t THEN "mpi"
                        ELSE IF u \in ThreadsOf(NodeOf(t)) THEN "wait2" ELSE pc[u]]
            /\ UNCHANGED nbar
    /\ UNCHANGED <<reg, shadow, acc, obs, ops, param, otherVars>>

\* MPI_Barrier(workcomm) returns on every node once every node has entered it
MPIBarrier ==
    /\ \A n \in Nodes : \E t \in ThreadsOf(n) : pc[t] = "mpi"
    /\ pc' = [t \in Threads |-> IF pc[t] = "mpi" THEN "si" ELSE pc[t]]
    /\ acc' = [a \in Addrs |-> NoAcc]
    /\ UNCHANGED <<engineVars, nbar, barriermutex, reg, shadow, obs, ops, param, otherVars>>

\* the winner self-invalidates and arrives last at the second
\* pthread_barrier_wait, which then returns in every thread of the node
BarrierInvalidate(t) ==
    /\ pc[t] = "si"
    /\ SetEngine(self_invalidation(Engine, NodeOf(t)))
    /\ pc' = [u \in Threads |-> IF u \in ThreadsOf(NodeOf(t)) THEN "exit" ELSE pc[u]]
    /\ UNCHANGED <<nbar, barriermutex, reg, shadow, acc, obs, ops, param, otherVars>>

\* pthread_equal(barrierlockholder, pthread_self()): the winner unlocks
\* barriermutex; in the other threads barrierlockholder was never assigned,
\* so the comparison may come out either way
BarrierReturn(t) ==
    /\ pc[t] = "exit"
    /\ \E equal \in (IF barriermutex[NodeOf(t)] = t THEN {TRUE} ELSE BOOLEAN) :
          barriermutex' = IF equal
                          THEN [barriermutex EXCEPT ![NodeOf(t)] = NoThread]
                          ELSE barriermutex
    /\ pc' = [pc EXCEPT ![t] = "run"]
    /\ nbar' = [nbar EXCEPT ![t] = @ + 1]
    /\ UNCHANGED <<engineVars, reg, shadow, acc, obs, ops, param, otherVars>>

\* the steps of a barrier after the arrival
BarrierSteps ==
    \/ \E t \in Threads : BarrierFlush(t)
    \/ MPIBarrier
    \/ \E t \in Threads : BarrierInvalidate(t)
    \/ \E t \in Threads : BarrierReturn(t)

Barrier ==
    \/ \E t \in Threads : BarrierArrive(t)
    \/ BarrierSteps

Init ==
    /\ EngineInit
    /\ ProgInit(1, MaxOps)
    /\ param = [barriers |-> MaxBarriers]
    /\ OtherInit

Next ==
    \/ \E t \in Threads, a \in ProgAddrs : Read(t, a)
    \/ \E t \in Threads, a \in ProgAddrs : Write(t, a)
    \/ Barrier

Spec == Init /\ [][Next]_vars

\* the same program with every thread of every node running, and fewer accesses
ThreadOps == 2
ThreadInit ==
    /\ EngineInit
    /\ ProgInit(threadsPerNode, ThreadOps)
    /\ param = [barriers |-> MaxBarriers]
    /\ OtherInit

ThreadSpec == ThreadInit /\ [][Next]_vars

\* no thread has returned from its k-th barrier before every thread of every
\* node has arrived at its k-th barrier
Arrivals(t) == nbar[t] + (IF pc[t] = "run" THEN 0 ELSE 1)
AllArrived ==
    \A t, u \in Threads : pc[t] # "off" /\ pc[u] # "off" => nbar[t] <= Arrivals(u)

\* C1: barrier visibility: in a data-race-free program every load returns
\* the value the program stored last, in particular a value that another
\* node stored before a barrier
C1_BarrierVisibility == obs.val = obs.exp

\* C1, the case: a load after a barrier returned the value another node stored
C1_Witness == obs.cross /\ obs.val = obs.exp /\ obs.exp # 0

\* a load after a barrier returned another value than the one last stored
C1_Stale == obs.cross /\ obs.val # obs.exp

(*********************** the atomic operations' wrappers ******************)
Orders == {"relaxed", "acquire", "release", "acq_rel"}

\* a call of atomic::exchange, store, load, compare_exchange or fetch_add
Call(op, order, obj, desired, expected) ==
    [op |-> op, order |-> order, obj |-> obj, desired |-> desired,
     expected |-> expected]

\* the wrapper up to the one-sided operation, on the engine E that the caller
\* leaves: release() when the order is acq_rel or release
AtomicCall(n, E, call) ==
    /\ reg[n].stage = "idle"
    /\ SetEngine(IF call.order \in {"acq_rel", "release"}
                 THEN argo_release(E, n)
                 ELSE E)
    /\ reg' = [reg EXCEPT ![n] =
                  [@ EXCEPT !.stage = "op", !.op = call.op, !.order = call.order,
                            !.obj = call.obj, !.desired = call.desired,
                            !.expected = call.expected]]

\* the engine after the one-sided operation of the call in r
AtomicState(E, r) ==
    CASE r.op = "exchange" -> _exchange(E, r.obj, r.desired)
      [] r.op = "store" -> _store(E, r.obj, r.desired)
      [] r.op = "compare_exchange" ->
             _compare_exchange(E, r.obj, r.desired, r.expected)
      [] r.op = "fetch_add" -> _fetch_add(E, r.obj, r.desired)
      [] OTHER -> E

\* the one-sided operation of node n's call, under ibsem: out is the fetched
\* word, ok what compare_exchange returns (out_buffer == expected_buffer);
\* the call returns here unless the order asks for acquire()
AtomicOp(n) ==
    LET r == reg[n]
        old == _load(Engine, r.obj)
        E1 == AtomicState(Engine, r)
        new == HomeWord(E1, r.obj)
        cas == r.op = "compare_exchange"
    IN  /\ r.stage = "op"
        /\ SetEngine(E1)
        /\ reg' = [reg EXCEPT ![n] =
                      [r EXCEPT
                          !.stage = IF r.order \in {"acq_rel", "acquire"}
                                    THEN "acq" ELSE "idle",
                          !.out = IF r.op = "store" THEN r.out ELSE old,
                          !.ok = IF cas THEN old = r.expected ELSE r.ok,
                          !.swapped = IF cas
                                      THEN old = r.expected /\ new = r.desired
                                      ELSE r.swapped,
                          !.wins = IF cas /\ old = r.expected
                                   THEN r.wins + 1 ELSE r.wins,
                          !.rets = IF r.op \in {"exchange", "fetch_add"}
                                   THEN Append(r.rets, old) ELSE r.rets]]
        /\ shadow' = [shadow EXCEPT ![r.obj] =
                         IF new = old THEN @ ELSE [val |-> new, node |-> n]]
        /\ UNCHANGED <<pc, nbar, barriermutex, acc, obs, ops, param, otherVars>>

\* acquire() after the operation, when the order is acq_rel or acquire
AtomicAcquire(n) ==
    /\ reg[n].stage = "acq"
    /\ SetEngine(argo_acquire(Engine, n))
    /\ reg' = [reg EXCEPT ![n].stage = "idle"]
    /\ UNCHANGED <<pc, nbar, barriermutex, shadow, acc, obs, ops, param, otherVars>>

Atomics ==
    \/ \E n \in Nodes : AtomicOp(n)
    \/ \E n \in Nodes : AtomicAcquire(n)

(****************** programs of atomic operations *************************)
\* calls of fetch_add, and successful compare_exchange loops, per node
MaxK == 2
\* ordinary accesses before the first barrier
PreOps == 2
\* the value that exchange and store write into a flag
flag_set == 1

\* the addresses of the atomic objects
AtomicObjs == {FirstByte(OwnPage(0))}

AtomicParams ==
    [prog : {"exchange", "cas"}, obj : AtomicObjs, order : Orders,
     k : {1}, data : {0}, writer : {0}, barriers : {2}]
    \cup [prog : {"casloop", "fetch_add"}, obj : AtomicObjs, order : Orders,
          k : 1 .. MaxK, data : {0}, writer : {0}, barriers : {2}]
    \cup {q \in [prog : {"mp"}, obj : ProgAddrs, order : {"release", "acq_rel"},
                 k : {1}, data : ProgAddrs, writer : Nodes, barriers : {1}] :
             q.obj # q.data}

AtomicInit ==
    /\ EngineInit
    /\ ProgInit(1, PreOps)
    /\ param \in AtomicParams
    /\ OtherInit

\* before the first barrier the nodes access memory as they like, but nobody
\* stores to the atomic object
PreRead(t, a) == nbar[t] = 0 /\ Read(t, a)
PreWrite(t, a) == nbar[t] = 0 /\ a # param.obj /\ Write(t, a)

\* node n has made all the atomic calls of its program
Finished(n) ==
    /\ reg[n].stage = "idle"
    /\ CASE param.prog = "exchange" -> Len(reg[n].rets) = 1
         [] param.prog = "cas" -> reg[n].op = "compare_exchange"
         [] param.prog = "casloop" -> reg[n].wins = param.k
         [] param.prog = "fetch_add" -> Len(reg[n].rets) = param.k
         [] OTHER -> pc[Main(n)] = "done"

\* the barrier before the calls, and the barrier after them
ProgBarrier(t) ==
    /\ nbar[t] = 0 \/ Finished(NodeOf(t))
    /\ BarrierArrive(t)

\* a program step of node n that starts an atomic call
ProgCall(n, prog, call) ==
    /\ param.prog = prog
    /\ pc[Main(n)] = "run"
    /\ nbar[Main(n)] = 1
    /\ ~Finished(n)
    /\ AtomicCall(n, Engine, call)
    /\ UNCHANGED <<pc, nbar, barriermutex, shadow, acc, obs, ops, param, otherVars>>

\* atomicXchgAtomicity: every node exchanges flag_set into the flag
XchgCall(n) ==
    ProgCall(n, "exchange",
             Call("exchange", param.order, param.obj, flag_set, 0))

\* atomicCASAtomicity: every node tries to replace the initial 0
CasCall(n) ==
    \E desired \in Vals :
        ProgCall(n, "cas",
                 Call("compare_exchange", param.order, param.obj, desired, 0))

\* atomicCASAtomicityStress: c = load(counter) ...
LoopLoad(n) ==
    /\ reg[n].op # "load"
    /\ ProgCall(n, "casloop", Call("load", "acquire", param.obj, 0, 0))

\* ... while(!compare_exchange(counter, c, c+1))
LoopCas(n) ==
    /\ reg[n].op = "load"
    /\ ProgCall(n, "casloop",
                Call("compare_exchange", param.order, param.obj,
                     reg[n].out + 1, reg[n].out))

\* atomicFetchAddInt: fetch_add(counter, 1)
FaddCall(n) ==
    ProgCall(n, "fetch_add", Call("fetch_add", param.order, param.obj, 1, 0))

\* after the second barrier the node reads the object with an ordinary load
FinalRead(t) ==
    /\ pc[t] = "run"
    /\ nbar[t] = 2
    /\ DoLoad(NodeOf(t), param.obj)
    /\ pc' = [pc EXCEPT ![t] = "done"]
    /\ reg' = [reg EXCEPT ![NodeOf(t)].out = LoadValue(Engine, NodeOf(t), param.obj)]
    /\ UNCHANGED <<nbar, barriermutex, shadow, acc, ops, param, otherVars>>

\* atomicXchgVisibility: the writer stores the data ...
MpWrite(n) ==
    /\ param.prog = "mp"
    /\ n = param.writer
    /\ pc[Main(n)] = "run"
    /\ nbar[Main(n)] = 1
    /\ DoStore(n, param.data, NextVal(param.data))
    /\ pc' = [pc EXCEPT ![Main(n)] = "flag"]
    /\ UNCHANGED <<nbar, barriermutex, reg, acc, obs, ops, param, otherVars>>

\* ... and sets the flag with an exchange or a store of release order
MpSignal(n) ==
    /\ pc[Main(n)] = "flag"
    /\ \E op \in {"exchange", "store"} :
          AtomicCall(n, Engine, Call(op, param.order, param.obj, flag_set, 0))
    /\ pc' = [pc EXCEPT ![Main(n)] = "done"]
    /\ UNCHANGED <<nbar, barriermutex, shadow, acc, obs, ops, param, otherVars>>

\* the other nodes poll the flag with a load of acquire order ...
MpPoll(n) ==
    /\ n # param.writer
    /\ reg[n].op # "load" \/ reg[n].out # flag_set
    /\ ProgCall(n, "mp", Call("load", "acquire", param.obj, 0, 0))

\* ... and read the data once they have seen the flag set
MpRead(n) ==
    /\ param.prog = "mp"
    /\ n # param.writer
    /\ pc[Main(n)] = "run"
    /\ reg[n].stage = "idle" /\ reg[n].op = "load" /\ reg[n].out = flag_set
    /\ DoLoad(n, param.data)
    /\ pc' = [pc EXCEPT ![Main(n)] = "done"]
    /\ UNCHANGED <<nbar, barriermutex, reg, shadow, acc, ops, param, otherVars>>

AtomicNext ==
    \/ \E t \in Threads, a \in ProgAddrs : PreRead(t, a)
    \/ \E t \in Threads, a \in ProgAddrs : PreWrite(t, a)
    \/ \E t \in Threads : ProgBarrier(t)
    \/ BarrierSteps
    \/ \E n \in Nodes : XchgCall(n)
    \/ \E n \in Nodes : CasCall(n)
    \/ \E n \in Nodes : LoopLoad(n)
    \/ \E n \in Nodes : LoopCas(n)
    \/ \E n \in Nodes : FaddCall(n)
    \/ \E n \in Nodes : MpWrite(n)
    \/ \E n \in Nodes : MpSignal(n)
    \/ \E n \in Nodes : MpPoll(n)
    \/ \E n \in Nodes : MpRead(n)
    \/ Atomics
    \/ \E t \in Threads : FinalRead(t)

AtomicSpec == AtomicInit /\ [][AtomicNext]_vars

(************************ claims about the atomics ************************)
AllFinished == \A n \in Nodes : Finished(n)

\* the calls that have returned a value, as pairs of node and position
Returned == {c \in Nodes \X (1 .. MaxK) : c[2] <= Len(reg[c[1]].rets)}

\* C5: atomic exchange is atomic across nodes: when all nodes exchange a new
\* value into the same flag, exactly one node receives the initial value 0
\* and every other node receives the new value
C5_ExchangeAtomic ==
    param.prog = "exchange" =>
        /\ \A c \in Returned : reg[c[1]].rets[c[2]] \in {0, flag_set}
        /\ Cardinality({c \in Returned : reg[c[1]].rets[c[2]] = 0}) <= 1
        /\ AllFinished =>
               Cardinality({c \in Returned : reg[c[1]].rets[c[2]] = 0}) = 1

\* C5, the case: every node has exchanged; one received 0, another the new value
C5_Witness ==
    /\ param.prog = "exchange"
    /\ AllFinished
    /\ \E n, m \in Nodes : reg[n].rets = <<0>> /\ reg[m].rets = <<flag_set>>

\* a compare_exchange returns true exactly when it replaced expected by desired
CasReturnsSwapped ==
    \A n \in Nodes :
        reg[n].op = "compare_exchange" /\ reg[n].stage # "op" =>
            reg[n].ok = reg[n].swapped

\* the counter that the compare_exchange loops increment ends at the number
\* of successful increments
CasLoopCounts ==
    param.prog = "casloop" /\ AllFinished =>
        /\ HomeWord(Engine, param.obj) = param.k * numtasks
        /\ \A n \in Nodes : reg[n].wins = param.k

\* C6 as stated: compare_exchange returns true exactly when it replaced
\* expected by desired; among concurrent callers with the same expected value
\* exactly one succeeds; a counter incremented by compare_exchange loops ends
\* at the number of successful increments
C6_CASAtomic ==
    /\ CasReturnsSwapped
    /\ CasLoopCounts
    /\ param.prog = "cas" /\ AllFinished =>
           Cardinality({n \in Nodes : reg[n].ok}) = 1

\* C6 amended: ... among concurrent callers with the same expected value, all
\* with a desired value that differs from it, exactly one succeeds ...
C6_CASAtomicChanging ==
    /\ CasReturnsSwapped
    /\ CasLoopCounts
    /\ /\ param.prog = "cas"
       /\ AllFinished
       /\ \A n \in Nodes : reg[n].desired # reg[n].expected
       => Cardinality({n \in Nodes : reg[n].ok}) = 1

\* C6, the case: every node has called compare_exchange(p, 0, d) with d # 0,
\* one has succeeded and another has failed
C6_Witness ==
    /\ param.prog = "cas"
    /\ AllFinished
    /\ \A n \in Nodes : reg[n].desired # reg[n].expected
    /\ \E n, m \in Nodes : reg[n].ok /\ ~reg[m].ok

\* fetch_add loses no update and returns pairwise distinct values
FetchAddAtomic ==
    param.prog = "fetch_add" =>
        /\ \A c, d \in Returned :
               c # d => reg[c[1]].rets[c[2]] # reg[d[1]].rets[d[2]]
        /\ AllFinished => HomeWord(Engine, param.obj) = param.k * numtasks

\* C7: fetch_add loses no update: the integer starts at 0, every node calls
\* fetch_add(1) k times; after a barrier every node reads k*N, and the values
\* the calls returned are pairwise distinct
C7_FetchAdd ==
    /\ FetchAddAtomic
    /\ param.prog = "fetch_add" =>
           \A n \in Nodes : pc[Main(n)] = "done" => reg[n].out = param.k * numtasks

\* C7, the case: a node has read k*N after the barrier
C7_Witness ==
    /\ param.prog = "fetch_add"
    /\ \E n \in Nodes : pc[Main(n)] = "done" /\ reg[n].out = param.k * numtasks

\* C8: release/acquire message passing: a node that has seen the flag set
\* by an exchange or store of release order, through a load of acquire order,
\* reads the data the setter wrote before
C8_MessagePassing == param.prog = "mp" => obs.val = obs.exp

\* C8, the case: the reader has read the written data after seeing the flag
C8_Witness ==
    /\ param.prog = "mp"
    /\ \E n \in Nodes : n # param.writer /\ pc[Main(n)] = "done"
    /\ obs.cross /\ obs.val = obs.exp

(******************** programs of selective coherence *********************)
\* the longest range a program releases and acquires, in bytes
MaxRange == 4
\* ordinary accesses before the barrier
SelOps == 1

\* "visibility": selectiveUnaligned with the flag as an atomic: the writer
\* stores the range, releases it and sets the flag, the other nodes see the
\* flag, acquire the range and read it.  "roundtrip": the writer stores the
\* range, releases it, acquires it and reads it back
SelParams ==
    {q \in [prog : {"visibility", "roundtrip"}, a : Addrs, n : 1 .. MaxRange,
            obj : Addrs, writer : Nodes, barriers : {1}] :
        /\ q.a + q.n <= size_of_all
        /\ q.obj = (q.a + q.n) % size_of_all}

SelInit ==
    /\ EngineInit
    /\ ProgInit(1, SelOps)
    /\ param \in SelParams
    /\ OtherInit

\* the bytes of the range and the pages they lie in
Range == param.a .. (param.a + param.n - 1)
RangePages == {PageOf(a) : a \in Range}
Crossing == getHomenode(param.a) # getHomenode(param.a + param.n - 1)

\* the bytes of the range that node n has not stored, or not loaded, since
\* the barrier
ToStore(n) == {a \in Range : acc[a].w # n}
ToLoad(n) == {a \in Range : n \notin acc[a].r}
Lowest(S) == CHOOSE a \in S : \A b \in S : a <= b

\* before the barrier: in the round trip the writer is the only node that
\* stores to the pages of the range
SelPreWrite(t, a) ==
    /\ param.prog = "roundtrip" /\ NodeOf(t) # param.writer
          => PageOf(a) \notin RangePages
    /\ PreWrite(t, a)

\* the writer stores the next byte of the range
SelWrite(n) ==
    /\ n = param.writer
    /\ pc[Main(n)] = "run"
    /\ nbar[Main(n)] = 1
    /\ ToStore(n) # {}
    /\ DoStore(n, Lowest(ToStore(n)), NextVal(Lowest(ToStore(n))))
    /\ acc' = [acc EXCEPT ![Lowest(ToStore(n))].w = n]
    /\ UNCHANGED <<pc, nbar, barriermutex, reg, obs, ops, param, otherVars>>

\* backend::selective_release(a, n) once the range is stored
SelRelease(n) ==
    /\ n = param.writer
    /\ pc[Main(n)] = "run"
    /\ nbar[Main(n)] = 1
    /\ ToStore(n) = {}
    /\ SetEngine(_selective_release(Engine, n, param.a, param.n))
    /\ pc' = [pc EXCEPT ![Main(n)] = "released"]
    /\ UNCHANGED <<nbar, barriermutex, reg, shadow, acc, obs, ops, param, otherVars>>

\* the writer sets the flag with a relaxed atomic store
SelSignal(n) ==
    /\ param.prog = "visibility"
    /\ pc[Main(n)] = "released"
    /\ AtomicCall(n, Engine, Call("store", "relaxed", param.obj, flag_set, 0))
    /\ pc' = [pc EXCEPT ![Main(n)] = "done"]
    /\ UNCHANGED <<nbar, barriermutex, shadow, acc, obs, ops, param, otherVars>>

\* the other nodes poll the flag with a relaxed atomic load
SelPoll(n) ==
    /\ n # param.writer
    /\ reg[n].op # "load" \/ reg[n].out # flag_set
    /\ ProgCall(n, "visibility", Call("load", "relaxed", param.obj, 0, 0))

\* backend::selective_acquire(a, n): by a node that has seen the flag, or by
\* the writer right after its release
SelAcquire(n) ==
    /\ \/ /\ param.prog = "visibility"
          /\ n # param.writer
          /\ pc[Main(n)] = "run"
          /\ nbar[Main(n)] = 1
          /\ reg[n].stage = "idle" /\ reg[n].op = "load" /\ reg[n].out = flag_set
       \/ /\ param.prog = "roundtrip"
          /\ pc[Main(n)] = "released"
    /\ SetEngine(_selective_acquire(Engine, n, param.a, param.n))
    /\ pc' = [pc EXCEPT ![Main(n)] = "read"]
    /\ obs' = NoObs
    /\ UNCHANGED <<nbar, barriermutex, reg, shadow, acc, ops, param, otherVars>>

\* after the acquire the node loads the next byte of the range
SelRead(n) ==
    /\ pc[Main(n)] = "read"
    /\ DoLoad(n, Lowest(ToLoad(n)))
    /\ acc' = [acc EXCEPT ![Lowest(ToLoad(n))].r = @ \cup {n}]
    /\ pc' = [pc EXCEPT ![Main(n)] =
                 IF ToLoad(n) = {Lowest(ToLoad(n))} THEN "done" ELSE "read"]
    /\ UNCHANGED <<nbar, barriermutex, reg, shadow, ops, param, otherVars>>

SelNext ==
    \/ \E t \in Threads, a \in ProgAddrs : PreRead(t, a)
    \/ \E t \in Threads, a \in ProgAddrs : SelPreWrite(t, a)
    \/ \E t \in Threads : ProgBarrier(t)
    \/ BarrierSteps
    \/ \E n \in Nodes : SelWrite(n)
    \/ \E n \in Nodes : SelRelease(n)
    \/ \E n \in Nodes : SelSignal(n)
    \/ \E n \in Nodes : SelPoll(n)
    \/ \E n \in Nodes : AtomicOp(n)
    \/ \E n \in Nodes : SelAcquire(n)
    \/ \E n \in Nodes : SelRead(n)

SelSpec == SelInit /\ [][SelNext]_vars

(******************* claims about selective coherence *********************)
\* the node that reads the range after a selective_acquire
SelReader(n) == pc[Main(n)] \in {"read", "done"} /\ n \in UNION {acc[a].r : a \in Range}

\* C2: a node that selective_acquires the range after the writer's
\* selective_release, ordered by the flag, reads in every byte of the range
\* the value the writer stored
C2_SelectiveVisibility ==
    param.prog = "visibility" /\ (\E n \in Nodes : SelReader(n))
        => obs.val = obs.exp

\* the node has read a whole range that is not aligned to pages and crosses
\* the boundary of two home nodes, and the last byte was the writer's
C2_Witness ==
    /\ param.prog = "visibility"
    /\ \E n \in Nodes \ {param.writer} : pc[Main(n)] = "done" /\ ToLoad(n) = {}
    /\ param.a % pagesize # 0
    /\ Crossing
    /\ obs.cross /\ obs.val = obs.exp

\* C10: selective_release(a, n) followed by selective_acquire(a, n) on the
\* node that is the only writer of the range's pages leaves in every byte of
\* the range the value that node stored last
C10_SelectiveRoundTrip ==
    param.prog = "roundtrip" /\ SelReader(param.writer)
        => obs.val = obs.exp

\* the writer has read back a whole range of more than one page
C10_Witness ==
    /\ param.prog = "roundtrip"
    /\ pc[Main(param.writer)] = "done" /\ ToLoad(param.writer) = {}
    /\ Cardinality(RangePages) > 1
    /\ obs.val = obs.exp /\ obs.val # 0

(****************** release() followed by acquire() ***********************)
\* ordinary accesses of one run
RaOps == 4

RaInit ==
    /\ EngineInit
    /\ ProgInit(1, RaOps)
    /\ param = [barriers |-> 0]
    /\ OtherInit

\* data-race-free accesses, also right after an acquire()
RaRead(t, a) ==
    /\ pc[t] \in {"run", "acquired"}
    /\ Load(t, a)
    /\ pc' = [pc EXCEPT ![t] = "run"]

RaWrite(t, a) ==
    /\ pc[t] \in {"run", "acquired"}
    /\ Store(t, a)
    /\ pc' = [pc EXCEPT ![t] = "run"]

\* backend::release()
RaRelease(t) ==
    /\ pc[t] \in {"run", "acquired"}
    /\ SetEngine(argo_release(Engine, NodeOf(t)))
    /\ pc' = [pc EXCEPT ![t] = "released"]
    /\ UNCHANGED <<nbar, barriermutex, reg, shadow, acc, obs, ops, param, otherVars>>

\* backend::acquire() right after it
RaAcquire(t) ==
    /\ pc[t] = "released"
    /\ SetEngine(argo_acquire(Engine, NodeOf(t)))
    /\ pc' = [pc EXCEPT ![t] = "acquired"]
    /\ UNCHANGED <<nbar, barriermutex, reg, shadow, acc, obs, ops, param, otherVars>>

RaNext ==
    \/ \E t \in Threads, a \in ProgAddrs : RaRead(t, a)
    \/ \E t \in Threads, a \in ProgAddrs : RaWrite(t, a)
    \/ \E t \in Threads : RaRelease(t)
    \/ \E t \in Threads : RaAcquire(t)

RaSpec == RaInit /\ [][RaNext]_vars

\* the nodes that have stored to page p (no barrier: no address changes hands)
Writers(p) == {shadow[a].node : a \in {b \in Addrs : PageOf(b) = p}} \ {NoNode}

\* node n holds page p of another node in a VALID cache line that it can read
Held(E, n, p) ==
    /\ getHomenode(FirstByte(p)) # n
    /\ E.cc[n][getCacheIndex(FirstByte(p))].tag = FirstByte(p)
    /\ E.cc[n][getCacheIndex(FirstByte(p))].state = VALID
    /\ E.pr[n][p] # PROT_NONE

\* what node n reads in the bytes of page p
Contents(E, n, p) == [o \in 0 .. (pagesize - 1) |-> ReadVirt(E, n, FirstByte(p) + o)]

\* thread t takes a step of release(); acquire()
RaStep(t) ==
    \/ pc[t] # "released" /\ pc'[t] = "released"
    \/ pc[t] = "released" /\ pc'[t] = "acquired"

\* C9 (R2): on a node that is the sole writer of a page, release() and the
\* acquire() that follows it leave the page's cache line VALID, readable and
\* with the same contents
C9_ReleaseAcquireNoOp ==
    [][\A t \in Threads, p \in PageNos :
          RaStep(t) /\ Writers(p) = {NodeOf(t)} /\ Held(Engine, NodeOf(t), p)
              => /\ Held(Engine, NodeOf(t), p)'
                 /\ Contents(Engine, NodeOf(t), p)' = Contents(Engine, NodeOf(t), p)]_vars

\* a node has called release(); acquire() and still holds a page of another
\* node that it alone has written
C9_Witness ==
    \E t \in Threads, p \in PageNos :
        /\ pc[t] = "acquired"
        /\ Writers(p) = {NodeOf(t)}
        /\ Held(Engine, NodeOf(t), p)

(**************************** global_tas_lock *****************************)
\* the lock field is in its initial state and free / the lock is taken
init == -2
locked == -1

\* successful acquisitions of a node in the increment program
MaxLocks == 2
\* the polls after which TAS_lock_custom_barrier gives up (100000 in the test)
deadlock_threshold == 2
\* ordinary accesses before the barrier
LockOps == 2

\* the addresses the lock programs use: those of the barrier program and the
\* first bytes of the pages after them
LockAddrs ==
    ProgAddrs \cup {FirstByte(OwnPage(0) + 1), FirstByte(AliasPage(0) + 1)}

\* the lock field (obj) lies on a page of node 1, the counter (data) anywhere
LockParams(progs) ==
    {q \in [prog : progs, obj : {FirstByte(AliasPage(0))}, data : LockAddrs,
             barriers : {1}] :
        q.obj # q.data}

\* every node is about to construct its global_tas_lock on the same field
LockInit(progs, budget) ==
    /\ EngineInit
    /\ pc = [t \in Threads |-> IF t[2] = 1 THEN "new" ELSE "off"]
    /\ nbar = [t \in Threads |-> 0]
    /\ barriermutex = [n \in Nodes |-> NoThread]
    /\ reg = [n \in Nodes |-> NoReg]
    /\ shadow = [a \in Addrs |-> [val |-> 0, node |-> NoNode]]
    /\ acc = [a \in Addrs |-> NoAcc]
    /\ obs = NoObs
    /\ ops = budget
    /\ param \in LockParams(progs)
    /\ OtherInit

\* global_tas_lock(f): *lastuser = init, an ordinary store
LockConstruct(n) ==
    /\ pc[Main(n)] = "new"
    /\ DoStore(n, param.obj, init)
    /\ pc' = [pc EXCEPT ![Main(n)] = IF n = 0 THEN "counter" ELSE "run"]
    /\ UNCHANGED <<nbar, barriermutex, reg, acc, obs, ops, param, otherVars>>

\* node 0 sets the counter to 0
CounterInit(n) ==
    /\ pc[Main(n)] = "counter"
    /\ DoStore(n, param.data, 0)
    /\ acc' = [acc EXCEPT ![param.data].w = n]
    /\ pc' = [pc EXCEPT ![Main(n)] = "run"]
    /\ UNCHANGED <<nbar, barriermutex, reg, obs, ops, param, otherVars>>

\* before the barrier the nodes access other data as they like
LockPreRead(t, a) == a \notin {param.obj, param.data} /\ PreRead(t, a)
LockPreWrite(t, a) == a # param.data /\ PreWrite(t, a)

\* try_lock: exchange(lastuser, locked, relaxed)
TryLock(n) ==
    /\ pc[Main(n)] = "run"
    /\ nbar[Main(n)] = 1
    /\ param.prog = "increment" => reg[n].wins < MaxLocks
    /\ AtomicCall(n, Engine, Call("exchange", "relaxed", param.obj, locked, 0))
    /\ pc' = [pc EXCEPT ![Main(n)] = "try"]
    /\ UNCHANGED <<nbar, barriermutex, shadow, acc, obs, ops, param, otherVars>>

\* a try_lock that never makes the backend acquire
TryLockReturnElided(n) ==
    LET old == reg[n].out
    IN  /\ pc[Main(n)] = "try"
        /\ reg[n].stage = "idle"
        /\ SetEngine(Engine)
        /\ pc' = [pc EXCEPT ![Main(n)] =
                     IF old = locked THEN "run"
                     ELSE IF param.prog = "poll" /\ reg[n].wins > 0 THEN "poll"
                     ELSE "cs"]
        /\ reg' = [reg EXCEPT ![n].rets = << >>]
        /\ UNCHANGED <<nbar, barriermutex, shadow, acc, obs, ops, param, otherVars>>

\* try_lock after the exchange: false if the field was locked; else the lock
\* is taken, with backend::acquire() unless the last user was this node or
\* nobody.  In the polling program a node that has incremented only reads.
\* (reg.wins counts the critical sections of the node, reg.rets is not used)
TryLockReturn(n) ==
    LET old == reg[n].out
    IN  /\ pc[Main(n)] = "try"
        /\ reg[n].stage = "idle"
        /\ SetEngine(IF old = locked \/ old = n \/ old = init
                     THEN Engine
                     ELSE argo_acquire(Engine, n))
        /\ pc' = [pc EXCEPT ![Main(n)] =
                     IF old = locked THEN "run"
                     ELSE IF param.prog = "poll" /\ reg[n].wins > 0 THEN "poll"
                     ELSE "cs"]
        /\ reg' = [reg EXCEPT ![n].rets = << >>]
        /\ UNCHANGED <<nbar, barriermutex, shadow, acc, obs, ops, param, otherVars>>

\* (*counter)++ in the critical section: the load ...
CsLoad(n) ==
    /\ pc[Main(n)] = "cs"
    /\ DoLoad(n, param.data)
    /\ reg' = [reg EXCEPT ![n].out = LoadValue(Engine, n, param.data)]
    /\ pc' = [pc EXCEPT ![Main(n)] = "inc"]
    /\ UNCHANGED <<nbar, barriermutex, shadow, acc, ops, param, otherVars>>

\* ... and the store
CsStore(n) ==
    /\ pc[Main(n)] = "inc"
    /\ DoStore(n, param.data, reg[n].out + 1)
    /\ reg' = [reg EXCEPT ![n].wins = @ + 1]
    /\ pc' = [pc EXCEPT ![Main(n)] = "unlock"]
    /\ UNCHANGED <<nbar, barriermutex, acc, obs, ops, param, otherVars>>

\* tmp = *counter in the polling loop
PollLoad(n) ==
    /\ pc[Main(n)] = "poll"
    /\ DoLoad(n, param.data)
    /\ reg' = [reg EXCEPT ![n].out = LoadValue(Engine, n, param.data),
                          ![n].wins = @ + 1]
    /\ pc' = [pc EXCEPT ![Main(n)] = "polled"]
    /\ UNCHANGED <<nbar, barriermutex, shadow, acc, ops, param, otherVars>>

\* the polls node n has made: its critical sections after the first
Polls(n) == reg[n].wins - 1

\* unlock: backend::release(), then atomic::store(lastuser, self) up to its
\* one-sided store (the order is release, so the wrapper releases again).
\* After a poll the test returns when --deadlock_threshold reaches 0, and
\* leaves the loop when tmp is the number of nodes
Unlock(n) ==
    /\ pc[Main(n)] \in {"unlock", "polled"}
    /\ AtomicCall(n, argo_release(Engine, n),
                  Call("store", "release", param.obj, n, 0))
    /\ pc' = [pc EXCEPT ![Main(n)] =
                 IF pc[Main(n)] = "unlock" THEN "run"
                 ELSE IF Polls(n) = deadlock_threshold THEN "gaveup"
                 ELSE IF reg[n].out = numtasks THEN "done"
                 ELSE "run"]
    /\ UNCHANGED <<nbar, barriermutex, shadow, acc, obs, ops, param, otherVars>>

\* the steps both programs take
LockSteps ==
    \/ \E n \in Nodes : LockConstruct(n)
    \/ \E n \in Nodes : CounterInit(n)
    \/ \E t \in Threads : ProgBarrier(t)
    \/ BarrierSteps
    \/ \E n \in Nodes : TryLock(n)
    \/ \E n \in Nodes : AtomicOp(n)
    \/ \E n \in Nodes : TryLockReturn(n)
    \/ \E n \in Nodes : CsLoad(n)
    \/ \E n \in Nodes : CsStore(n)
    \/ \E n \in Nodes : Unlock(n)

\* the nodes take the lock and increment the counter, up to MaxLocks times
LockNext ==
    \/ \E t \in Threads, a \in LockAddrs : LockPreRead(t, a)
    \/ \E t \in Threads, a \in LockAddrs : LockPreWrite(t, a)
    \/ LockSteps

LockSpec == LockInit({"increment"}, LockOps) /\ [][LockNext]_vars

(********************** claims about global_tas_lock **********************)
\* node n holds the lock: from the exchange that found the field free to the
\* one-sided store of unlock
Holds(n) ==
    \/ pc[Main(n)] = "try" /\ reg[n].stage = "idle" /\ reg[n].out # locked
    \/ pc[Main(n)] \in {"cs", "inc", "unlock", "poll", "polled"}
    \/ reg[n].op = "store" /\ reg[n].stage = "op"

MutualExclusion == Cardinality({n \in Nodes : Holds(n)}) <= 1

\* the increments made so far: one per completed critical section
RECURSIVE SumWins(_)
SumWins(S) ==
    IF S = {} THEN 0
    ELSE LET n == CHOOSE m \in S : TRUE
         IN  reg[n].wins + SumWins(S \ {n})
Increments == SumWins(Nodes)

\* a holder of the lock reads in the counter every increment made before
HolderSeesAll ==
    \A n \in Nodes : pc[Main(n)] = "inc" => reg[n].out = Increments

\* C3: at most one node holds the lock, and every holder finds in the counter
\* the number of critical sections completed before, so that no increment is
\* lost and each is seen by the next holder
C3_TASMutualExclusion == MutualExclusion /\ HolderSeesAll

\* a node has taken the lock after another node and read that node's increment
C3_Witness ==
    \E n \in Nodes :
        /\ pc[Main(n)] = "inc"
        /\ reg[n].out = Increments
        /\ \E m \in Nodes \ {n} : reg[m].wins > 0

(************* TAS_lock_custom_barrier: the lock as a barrier *************)
\* every node takes the lock, increments the counter and unlocks, then polls
\* the counter under the lock until it reads the number of nodes
PollNext ==
    \/ LockSteps
    \/ \E n \in Nodes : PollLoad(n)

\* node n can take a step of its own: the guards of its actions
Runnable(n) ==
    LET t == Main(n)
    IN  \/ pc[t] = "new" /\ CanStore(Engine, n, param.obj)
        \/ pc[t] \in {"counter", "inc"} /\ CanStore(Engine, n, param.data)
        \/ pc[t] \in {"cs", "poll"} /\ CanLoad(Engine, n, param.data)
        \/ pc[t] = "run" /\ nbar[t] = 0
        \/ pc[t] \in {"wait1", "si", "exit"}
        \/ pc[t] = "run" /\ nbar[t] = 1 /\ reg[n].stage = "idle"
        \/ reg[n].stage = "op"
        \/ pc[t] \in {"try", "unlock", "polled"} /\ reg[n].stage = "idle"

\* a step of node n: each of them changes its position or its atomic call
Moved(n) == pc'[Main(n)] # pc[Main(n)] \/ reg'[n] # reg[n]

\* every node is a process of its own that keeps running (weak fairness of
\* the node's steps, with Runnable for their enabling condition), and
\* MPI_Barrier returns once every node has entered it
PollSpec ==
    /\ LockInit({"poll"}, 0)
    /\ [][PollNext]_vars
    /\ WF_vars(MPIBarrier)
    /\ \A n \in Nodes : []<>(~Runnable(n)) \/ []<><<Moved(n)>>_vars

\* every node has left the polling loop having read the number of nodes
AllDone == \A n \in Nodes : pc[Main(n)] = "done"
\* every node has left the test
AllLeft == \A n \in Nodes : pc[Main(n)] \in {"done", "gaveup"}
\* the nodes that have incremented the counter
Incremented == {n \in Nodes : reg[n].wins > 0}

\* C4 as stated: every node takes the lock and leaves the polling loop with
\* the counter equal to the number of nodes
C4_TASProgress == <>AllDone

\* C4 amended: every node takes the lock, increments the counter and leaves
\* the test, with the counter equal to the number of nodes or after
\* deadlock_threshold polls
C4_TASTerminates == <>(AllLeft /\ Incremented = Nodes)

\* no execution deadlocks: until all have left, some node can take a step
NoDeadlock ==
    \/ AllLeft /\ \A n \in Nodes : reg[n].stage = "idle"
    \/ \E n \in Nodes : Runnable(n)
    \/ \A n \in Nodes : pc[Main(n)] = "mpi"

\* a poll under the lock reads the number of nodes that have incremented, and
\* a node leaves the loop normally only when that is every node
PollSeesAll ==
    \A n \in Nodes :
        /\ pc[Main(n)] = "polled" => reg[n].out = Cardinality(Incremented)
        /\ pc[Main(n)] = "done" => Incremented = Nodes

\* every node has left the test, one of them by giving up
C4_Witness ==
    /\ AllLeft
    /\ Incremented = Nodes
    /\ \E n \in Nodes : pc[Main(n)] = "gaveup"

(******************************** mcs_lock *********************************)
\* the thread goes to statement p
Goto(t, p) == pc' = [pc EXCEPT ![t] = p]

\* the thread calls an operation of mcs_lock l that returns to statement ret
McsCall(t, op, l, ret) ==
    /\ pc' = [pc EXCEPT ![t] = op]
    /\ local' = [local EXCEPT ![t].lock = l, ![t].ret = ret]

\* what the operations of mcs_lock leave alone
McsFrame ==
    UNCHANGED <<engineVars, nbar, barriermutex, reg, shadow, acc, obs, ops,
                param, in_counter, out_counter, has_global_lock, handovers,
                numahandover, nodelockowner, counter, restVars>>

\* lock: self->next.store(nullptr)
McsLockNext(t) ==
    LET l == local[t].lock
    IN  /\ pc[t] = "lock"
        /\ selfs' = [selfs EXCEPT ![t][l].next = NoThread]
        /\ Goto(t, "lock.xchg")
        /\ UNCHANGED <<_tail, local, queue>>
        /\ McsFrame

\* a lock() that does not look at its predecessor
McsLockBarge(t) ==
    LET l == local[t].lock
    IN  /\ pc[t] = "lock.xchg"
        /\ _tail' = [_tail EXCEPT ![l] = t]
        /\ local' = [local EXCEPT ![t].predecessor = NoThread]
        /\ queue' = [queue EXCEPT ![l] = Append(@, t)]
        /\ Goto(t, local[t].ret)
        /\ UNCHANGED selfs
        /\ McsFrame

\* lock: predecessor = _tail.exchange(self); the lock is taken if there was
\* no predecessor
McsLockExchange(t) ==
    LET l == local[t].lock
    IN  /\ pc[t] = "lock.xchg"
        /\ _tail' = [_tail EXCEPT ![l] = t]
        /\ local' = [local EXCEPT ![t].predecessor = _tail[l]]
        /\ queue' = [queue EXCEPT ![l] = Append(@, t)]
        /\ Goto(t, IF _tail[l] = NoThread THEN local[t].ret ELSE "lock.mark")
        /\ UNCHANGED selfs
        /\ McsFrame

\* lock: self->locked.store(true)
McsLockMark(t) ==
    LET l == local[t].lock
    IN  /\ pc[t] = "lock.mark"
        /\ selfs' = [selfs EXCEPT ![t][l].locked = TRUE]
        /\ Goto(t, "lock.link")
        /\ UNCHANGED <<_tail, local, queue>>
        /\ McsFrame

\* lock: predecessor->next.store(self)
McsLockLink(t) ==
    LET l == local[t].lock
    IN  /\ pc[t] = "lock.link"
        /\ selfs' = [selfs EXCEPT ![local[t].predecessor][l].next = t]
        /\ Goto(t, "lock.spin")
        /\ UNCHANGED <<_tail, local, queue>>
        /\ McsFrame

\* lock: while (self->locked.load()) yield(); the iterations that read true
\* change nothing
McsLockSpin(t) ==
    LET l == local[t].lock
    IN  /\ pc[t] = "lock.spin"
        /\ ~selfs[t][l].locked
        /\ Goto(t, local[t].ret)
        /\ UNCHANGED <<_tail, selfs, local, queue>>
        /\ McsFrame

\* try_lock: _tail.load() != nullptr returns false
McsTryLoad(t) ==
    LET l == local[t].lock
    IN  /\ pc[t] = "try_lock"
        /\ IF _tail[l] # NoThread
           THEN /\ local' = [local EXCEPT ![t].res = FALSE]
                /\ Goto(t, local[t].ret)
           ELSE /\ Goto(t, "try_lock.next")
                /\ UNCHANGED local
        /\ UNCHANGED <<_tail, selfs, queue>>
        /\ McsFrame

\* try_lock: self->next.store(nullptr)
McsTryNext(t) ==
    LET l == local[t].lock
    IN  /\ pc[t] = "try_lock.next"
        /\ selfs' = [selfs EXCEPT ![t][l].next = NoThread]
        /\ Goto(t, "try_lock.cas")
        /\ UNCHANGED <<_tail, local, queue>>
        /\ McsFrame

\* try_lock: return _tail.compare_exchange_strong(self, nullptr), which
\* expects self in _tail and stores nullptr
McsTryCas(t) ==
    LET l == local[t].lock
    IN  /\ pc[t] = "try_lock.cas"
        /\ _tail' = [_tail EXCEPT ![l] = IF @ = t THEN NoThread ELSE @]
        /\ local' = [local EXCEPT ![t].res = (_tail[l] = t)]
        /\ Goto(t, local[t].ret)
        /\ UNCHANGED <<selfs, queue>>
        /\ McsFrame

\* unlock: self->next.load() == nullptr
McsUnlockLoad(t) ==
    LET l == local[t].lock
    IN  /\ pc[t] = "unlock"
        /\ Goto(t, IF selfs[t][l].next = NoThread THEN "unlock.cas"
                   ELSE "unlock.notify")
        /\ UNCHANGED <<_tail, selfs, local, queue>>
        /\ McsFrame

\* unlock: _tail.compare_exchange_strong(also_self, nullptr) frees the lock
\* if nobody waits
McsUnlockCas(t) ==
    LET l == local[t].lock
    IN  /\ pc[t] = "unlock.cas"
        /\ IF _tail[l] = t
           THEN /\ _tail' = [_tail EXCEPT ![l] = NoThread]
                /\ queue' = [queue EXCEPT ![l] = Tail(@)]
                /\ Goto(t, local[t].ret)
           ELSE /\ Goto(t, "unlock.wait")
                /\ UNCHANGED <<_tail, queue>>
        /\ UNCHANGED <<selfs, local>>
        /\ McsFrame

\* unlock: while (self->next.load() == nullptr) yield()
McsUnlockWait(t) ==
    LET l == local[t].lock
    IN  /\ pc[t] = "unlock.wait"
        /\ selfs[t][l].next # NoThread
        /\ Goto(t, "unlock.notify")
        /\ UNCHANGED <<_tail, selfs, local, queue>>
        /\ McsFrame

\* unlock: self->next.load()->locked.store(false)
McsUnlockNotify(t) ==
    LET l == local[t].lock
    IN  /\ pc[t] = "unlock.notify"
        /\ selfs' = [selfs EXCEPT ![selfs[t][l].next][l].locked = FALSE]
        /\ queue' = [queue EXCEPT ![l] = Tail(@)]
        /\ Goto(t, local[t].ret)
        /\ UNCHANGED <<_tail, local>>
        /\ McsFrame

\* is_contended: self->next != nullptr
is_contended(t, l) == selfs[t][l].next # NoThread

\* the steps of thread t inside lock() and unlock()
McsSteps(t) ==
    \/ McsLockNext(t)
    \/ McsLockExchange(t)
    \/ McsLockMark(t)
    \/ McsLockLink(t)
    \/ McsLockSpin(t)
    \/ McsUnlockLoad(t)
    \/ McsUnlockCas(t)
    \/ McsUnlockWait(t)
    \/ McsUnlockNotify(t)

(************** StressMCSLock, StressMCSMultipleLocks, try_lock ************)
\* iterations of each thread (10000 in the tests), and those of the program
\* that nests two locks
iter == 2
nestedIter == 1

\* the iterations of the program that runs
Iterations == IF param.prog = "nested" THEN nestedIter ELSE iter

\* the number of the thread among the threads of the test
Index(t) == (t[1] * threadsPerNode) + t[2] - 1

\* the programs: every thread takes the one lock ("single"), its first-level
\* lock and then the global one ("nested"), or the one lock by lock() or
\* try_lock() as it likes ("try"); in "alone" only one thread runs, and calls
\* try_lock()
McsParams(progs) == [prog : progs, barriers : {0}]

McsInit(progs) ==
    /\ EngineInit
    /\ ProgInit(threadsPerNode, 0)
    /\ OtherInit
    /\ param \in McsParams(progs)

\* threads of the tests (16 in the tests)
nThreads == 3

\* the thread takes part in the program
Runs(t) == IF param.prog = "alone" THEN t = Main(0) ELSE Index(t) < nThreads

\* the lock a thread takes first
First(t) == IF param.prog = "nested" THEN Index(t) % locks ELSE 0

\* what the statements of the test leave alone
TestFrame ==
    UNCHANGED <<engineVars, nbar, barriermutex, reg, shadow, acc, obs, ops,
                param, _tail, selfs, in_counter, out_counter, has_global_lock,
                handovers, numahandover, nodelockowner, queue, restVars>>

\* lock->lock() / l1->lock()
McsTakeFirst(t) ==
    /\ pc[t] = "run"
    /\ Runs(t)
    /\ param.prog # "alone"
    /\ local[t].done < Iterations
    /\ McsCall(t, "lock", First(t), IF param.prog = "nested" THEN "second" ELSE "cs")
    /\ UNCHANGED counter
    /\ TestFrame

\* l2->lock()
McsTakeSecond(t) ==
    /\ pc[t] = "second"
    /\ McsCall(t, "lock", locks, "cs")
    /\ UNCHANGED counter
    /\ TestFrame

\* lock->try_lock()
McsTry(t) ==
    /\ pc[t] = "run"
    /\ Runs(t)
    /\ param.prog \in {"try", "alone"}
    /\ local[t].done < Iterations
    /\ McsCall(t, "try_lock", 0, "tried")
    /\ UNCHANGED counter
    /\ TestFrame

\* the caller of try_lock() enters the critical section if it returned true
McsTried(t) ==
    /\ pc[t] = "tried"
    /\ IF local[t].res
       THEN Goto(t, "cs") /\ UNCHANGED local
       ELSE Goto(t, "run") /\ local' = [local EXCEPT ![t].done = @ + 1]
    /\ UNCHANGED counter
    /\ TestFrame

\* (*counter)++: the load ...
McsCsLoad(t) ==
    /\ pc[t] = "cs"
    /\ local' = [local EXCEPT ![t].tmp = counter]
    /\ Goto(t, "cs.store")
    /\ UNCHANGED counter
    /\ TestFrame

\* ... and the store, then lock->unlock() / l2->unlock()
McsCsStore(t) ==
    /\ pc[t] = "cs.store"
    /\ counter' = local[t].tmp + 1
    /\ pc' = [pc EXCEPT ![t] = "unlock"]
    /\ local' = [local EXCEPT
                    ![t].done = @ + 1,
                    ![t].lock = IF param.prog = "nested" THEN locks ELSE 0,
                    ![t].ret = IF param.prog = "nested" THEN "release" ELSE "run"]
    /\ TestFrame

\* l1->unlock()
McsRelease(t) ==
    /\ pc[t] = "release"
    /\ McsCall(t, "unlock", First(t), "run")
    /\ UNCHANGED counter
    /\ TestFrame

\* the steps of thread t in StressMCSLock and StressMCSMultipleLocks
McsThread(t) ==
    \/ McsTakeFirst(t)
    \/ McsTakeSecond(t)
    \/ McsCsLoad(t)
    \/ McsCsStore(t)
    \/ McsRelease(t)
    \/ McsSteps(t)

McsNext == \E t \in Threads : McsThread(t)

\* the steps of thread t in the programs that call try_lock()
TryThread(t) ==
    \/ McsTakeFirst(t)
    \/ McsTry(t)
    \/ McsTryLoad(t)
    \/ McsTryNext(t)
    \/ McsTryCas(t)
    \/ McsTried(t)
    \/ McsCsLoad(t)
    \/ McsCsStore(t)
    \/ McsSteps(t)

TryNext == \E t \in Threads : TryThread(t)

\* every thread that can take a step is scheduled again
McsSpec ==
    /\ McsInit({"single", "nested"})
    /\ [][McsNext]_vars
    /\ \A t \in Threads : WF_vars(McsThread(t))

\* the programs that call try_lock()
TrySpec == McsInit({"try", "alone"}) /\ [][TryNext]_vars

(************************** claims about mcs_lock **************************)
LockPcs == {"lock", "lock.xchg", "lock.mark", "lock.link", "lock.spin"}
UnlockPcs == {"unlock", "unlock.cas", "unlock.wait", "unlock.notify"}

\* thread t holds mcs_lock l: from the return of lock() or of a try_lock()
\* that said true to the step of unlock() that frees l or hands it over
McsHolds(t, l) ==
    \/ pc[t] \in {"cs", "cs.store"} /\ l = First(t)
    \/ pc[t] \in {"cs", "cs.store"} /\ param.prog = "nested" /\ l = locks
    \/ pc[t] \in UnlockPcs /\ local[t].lock = l
    \/ pc[t] = "tried" /\ local[t].res /\ l = 0
    \/ /\ param.prog = "nested"
       /\ l = First(t)
       /\ \/ pc[t] \in {"second", "release"}
          \/ pc[t] \in LockPcs \cup UnlockPcs /\ local[t].lock = locks

McsMutex == \A l \in McsLocks : Cardinality({t \in Threads : McsHolds(t, l)}) <= 1

\* the holder is the thread whose exchange on _tail is the oldest among those
\* that have not released the lock since
McsFifo ==
    \A l \in McsLocks, t \in Threads :
        McsHolds(t, l) => queue[l] # << >> /\ Head(queue[l]) = t

\* C12: with lock() and unlock() only, on one lock or on two nested in a
\* fixed order, at most one thread holds each mcs_lock at a time, the holder
\* is always the oldest of the queued threads, and every call of lock()
\* returns
C12_McsLock ==
    /\ [](McsMutex /\ McsFifo)
    /\ \A t \in Threads : (pc[t] \in LockPcs) ~> (pc[t] \notin LockPcs)

\* a thread that had to queue behind two others holds the global lock of the
\* nested program
C12_Witness ==
    /\ param.prog = "nested"
    /\ \E t \in Threads :
          /\ pc[t] = "cs"
          /\ local[t].lock = locks
          /\ local[t].predecessor # NoThread
          /\ counter > 0

\* C13: try_lock() called on a free lock by the only thread there is returns
\* true; and whenever try_lock() returns true the caller holds the lock and
\* nobody else does
C13_TryLock ==
    /\ \A t \in Threads :
           param.prog = "alone" /\ pc[t] = "tried" => local[t].res
    /\ McsMutex

\* the only thread of the program has called try_lock() on the free lock and
\* the call has returned
C13_Witness ==
    /\ param.prog = "alone"
    /\ pc[Main(0)] = "tried"
    /\ _tail[0] = NoThread

(******************************* ticket_lock *******************************)
\* what ticket_lock, cohort_lock and the critical section leave alone
CohortFrame ==
    UNCHANGED <<nbar, barriermutex, shadow, acc, ops, param, counter, restVars>>

\* the counters are std::atomic<int> and wrap around (32 bits in the code)
ticketBits == 2
TicketModulus == 2 ^ ticketBits

\* lock: ticket = in_counter.fetch_add(1)
TicketTake(t) ==
    LET n == NodeOf(t)
    IN  /\ pc[t] = "tk.take"
        /\ local' = [local EXCEPT ![t].ticket = in_counter[n]]
        /\ in_counter' = [in_counter EXCEPT ![n] = (@ + 1) % TicketModulus]
        /\ Goto(t, "tk.spin")
        /\ UNCHANGED <<engineVars, reg, obs, _tail, selfs, out_counter,
                       has_global_lock, handovers, numahandover, nodelockowner,
                       queue>>
        /\ CohortFrame

\* lock: while (out_counter.load() != ticket); back in cohort_lock::lock
TicketSpin(t) ==
    LET n == NodeOf(t)
    IN  /\ pc[t] = "tk.spin"
        /\ out_counter[n] = local[t].ticket
        /\ Goto(t, "co.setowner")
        /\ UNCHANGED <<engineVars, reg, obs, lockVars>>
        /\ CohortFrame

\* ticket_lock::is_contended: (local_in - local_out) > 1
node_lock_is_contended(n) ==
    (in_counter[n] - out_counter[n] + TicketModulus) % TicketModulus > 1

(******************************* cohort_lock *******************************)
\* handovers within a NUMA node and between the NUMA nodes of an ArgoDSM
\* node (8192 and 128 in the code)
MAX_HANDOVER == 1
MAX_HANDOVER_NODELOCK == 1
\* numa_node(): always 0
numa_node == 0
\* iterations of each thread (10000 in the test)
cohortIter == 1
\* ordinary accesses before the barrier
CohortOps == 2
\* iterations of each thread where the handovers are counted
handoverIter == 2
\* the iterations of thread t in the program that runs
CohortIterations(t) ==
    IF param.prog = "handover" /\ t = Main(0) THEN handoverIter ELSE cohortIter

\* thread t takes the lock again and again
KeepsRequesting(t) == param.prog = "forever" /\ t = Main(0)

\* the threads of the test: all those of node 0, one on every other node
CohortRuns(t) == t = Main(NodeOf(t)) \/ NodeOf(t) = 0

\* lock: node = numa_node(); local_lock[node].lock()
CohortLock(t) ==
    LET n == NodeOf(t)
    IN  /\ CohortRuns(t)
        /\ nbar[Main(n)] = 1
        /\ \/ pc[t] = "run" /\ t = Main(n)
           \/ pc[t] = "off"
           \/ pc[t] = "next"
        /\ KeepsRequesting(t) \/ local[t].done < CohortIterations(t)
        /\ McsCall(t, "lock", n, "co.owner")
        /\ UNCHANGED <<engineVars, reg, obs, _tail, selfs, in_counter,
                       out_counter, has_global_lock, handovers, numahandover,
                       nodelockowner, queue>>
        /\ CohortFrame

\* lock: if (node != nodelockowner) node_lock->lock(), else the lock is taken
CohortOwner(t) ==
    LET n == NodeOf(t)
    IN  /\ pc[t] = "co.owner"
        /\ Goto(t, IF numa_node # nodelockowner[n] THEN "tk.take" ELSE "cs")
        /\ UNCHANGED <<engineVars, reg, obs, lockVars>>
        /\ CohortFrame

\* lock: nodelockowner = node; if (!has_global_lock) global_lock->lock()
CohortSetOwner(t) ==
    LET n == NodeOf(t)
    IN  /\ pc[t] = "co.setowner"
        /\ nodelockowner' = [nodelockowner EXCEPT ![n] = numa_node]
        /\ Goto(t, IF has_global_lock[n] THEN "cs" ELSE "g.try")
        /\ UNCHANGED <<engineVars, reg, obs, _tail, selfs, in_counter,
                       out_counter, has_global_lock, handovers, numahandover,
                       local, queue>>
        /\ CohortFrame

\* global_lock->lock(): try_lock's exchange(lastuser, locked, relaxed)
GlobalTry(t) ==
    LET n == NodeOf(t)
    IN  /\ pc[t] = "g.try"
        /\ AtomicCall(n, Engine, Call("exchange", "relaxed", param.obj, locked, 0))
        /\ Goto(t, "g.ret")
        /\ UNCHANGED <<obs, lockVars>>
        /\ CohortFrame

\* global_lock->lock(): try_lock after the exchange, again if the field was
\* locked, else with backend::acquire() unless the last user was this node
\* or nobody; then has_global_lock = true
GlobalTryReturn(t) ==
    LET n == NodeOf(t)
        old == reg[n].out
    IN  /\ pc[t] = "g.ret"
        /\ reg[n].stage = "idle"
        /\ SetEngine(IF old = locked \/ old = n \/ old = init
                     THEN Engine
                     ELSE argo_acquire(Engine, n))
        /\ has_global_lock' = [has_global_lock EXCEPT ![n] = (old # locked) \/ @]
        /\ Goto(t, IF old = locked THEN "g.try" ELSE "cs")
        /\ reg' = [reg EXCEPT ![n].rets = << >>]
        /\ UNCHANGED <<obs, _tail, selfs, in_counter, out_counter, handovers,
                       numahandover, nodelockowner, local, queue>>
        /\ CohortFrame

\* (*counter)++ in the critical section: the load ...
CohortCsLoad(t) ==
    LET n == NodeOf(t)
    IN  /\ pc[t] = "cs"
        /\ DoLoad(n, param.data)
        /\ local' = [local EXCEPT ![t].tmp = LoadValue(Engine, n, param.data)]
        /\ Goto(t, "inc")
        /\ UNCHANGED <<nbar, barriermutex, reg, shadow, acc, ops, param, _tail,
                       selfs, in_counter, out_counter, has_global_lock,
                       handovers, numahandover, nodelockowner, counter, queue,
                       restVars>>

\* ... and the store
CohortCsStore(t) ==
    LET n == NodeOf(t)
    IN  /\ pc[t] = "inc"
        /\ DoStore(n, param.data, local[t].tmp + 1)
        /\ local' = [local EXCEPT ![t].done = @ + 1]
        /\ Goto(t, "co.unlock")
        /\ UNCHANGED <<nbar, barriermutex, reg, acc, obs, ops, param, _tail,
                       selfs, in_counter, out_counter, has_global_lock,
                       handovers, numahandover, nodelockowner, counter, queue,
                       restVars>>

\* a critical section that accesses no memory
CohortCsSkip(t) ==
    /\ pc[t] = "cs"
    /\ local' = [local EXCEPT ![t].done =
                     IF KeepsRequesting(t) THEN @ ELSE @ + 1]
    /\ Goto(t, "co.unlock")
    /\ UNCHANGED <<engineVars, reg, obs, _tail, selfs, in_counter, out_counter,
                   has_global_lock, handovers, numahandover, nodelockowner,
                   queue>>
    /\ CohortFrame

\* unlock that hands over to any waiting thread, however many handovers
\* were made
CohortUnlockUnbounded(t) ==
    LET n == NodeOf(t)
    IN  /\ pc[t] = "co.unlock"
        /\ IF is_contended(t, n)
           THEN /\ handovers' = [handovers EXCEPT ![n] = @ + 1]
                /\ McsCall(t, "unlock", n, "next")
                /\ UNCHANGED nodelockowner
           ELSE /\ handovers' = [handovers EXCEPT ![n] = 0]
                /\ nodelockowner' = [nodelockowner EXCEPT ![n] = NO_OWNER]
                /\ Goto(t, "co.node")
                /\ UNCHANGED local
        /\ UNCHANGED <<engineVars, reg, obs, _tail, selfs, in_counter,
                       out_counter, has_global_lock, numahandover, queue>>
        /\ CohortFrame

\* unlock: the lock stays in the NUMA node if a thread waits for local_lock
\* and the handovers allow it, else the node_lock is given up
CohortUnlock(t) ==
    LET n == NodeOf(t)
    IN  /\ pc[t] = "co.unlock"
        /\ IF is_contended(t, n) /\ handovers[n] < MAX_HANDOVER
           THEN /\ handovers' = [handovers EXCEPT ![n] = @ + 1]
                /\ McsCall(t, "unlock", n, "next")
                /\ UNCHANGED nodelockowner
           ELSE /\ handovers' = [handovers EXCEPT ![n] = 0]
                /\ nodelockowner' = [nodelockowner EXCEPT ![n] = NO_OWNER]
                /\ Goto(t, "co.node")
                /\ UNCHANGED local
        /\ UNCHANGED <<engineVars, reg, obs, _tail, selfs, in_counter,
                       out_counter, has_global_lock, numahandover, queue>>
        /\ CohortFrame

\* unlock that never gives up the global lock
CohortNodeUnlockKeeps(t) ==
    LET n == NodeOf(t)
    IN  /\ pc[t] = "co.node"
        /\ Goto(t, "tk.unlock")
        /\ UNCHANGED <<engineVars, reg, obs, _tail, selfs, in_counter,
                       out_counter, has_global_lock, numahandover, handovers,
                       nodelockowner, local, queue>>
        /\ CohortFrame

\* unlock: the lock stays in the ArgoDSM node if a thread waits for node_lock
\* and the handovers allow it, else the global lock is given up
CohortNodeUnlock(t) ==
    LET n == NodeOf(t)
    IN  /\ pc[t] = "co.node"
        /\ IF node_lock_is_contended(n) /\ numahandover[n] < MAX_HANDOVER_NODELOCK
           THEN /\ numahandover' = [numahandover EXCEPT ![n] = @ + 1]
                /\ Goto(t, "tk.unlock")
                /\ UNCHANGED has_global_lock
           ELSE /\ has_global_lock' = [has_global_lock EXCEPT ![n] = FALSE]
                /\ numahandover' = [numahandover EXCEPT ![n] = 0]
                /\ Goto(t, "g.unlock")
        /\ UNCHANGED <<engineVars, reg, obs, _tail, selfs, in_counter,
                       out_counter, handovers, nodelockowner, local, queue>>
        /\ CohortFrame

\* global_lock->unlock(): backend::release(), then atomic::store(lastuser,
\* self) up to its one-sided store
GlobalUnlock(t) ==
    LET n == NodeOf(t)
    IN  /\ pc[t] = "g.unlock"
        /\ AtomicCall(n, argo_release(Engine, n),
                      Call("store", "release", param.obj, n, 0))
        /\ Goto(t, "tk.unlock")
        /\ UNCHANGED <<obs, lockVars>>
        /\ CohortFrame

\* node_lock->unlock(): out_counter.fetch_add(1); then local_lock[node].unlock()
TicketUnlock(t) ==
    LET n == NodeOf(t)
    IN  /\ pc[t] = "tk.unlock"
        /\ reg[n].stage = "idle"
        /\ out_counter' = [out_counter EXCEPT ![n] = (@ + 1) % TicketModulus]
        /\ McsCall(t, "unlock", n, "next")
        /\ UNCHANGED <<engineVars, reg, obs, _tail, selfs, in_counter,
                       has_global_lock, handovers, numahandover, nodelockowner,
                       queue>>
        /\ CohortFrame

(***************************** StressCohortLock ****************************)
\* the steps of thread t in increment_counter on the cohort_lock
CohortThread(t) ==
    \/ CohortLock(t)
    \/ CohortOwner(t)
    \/ TicketTake(t)
    \/ TicketSpin(t)
    \/ CohortSetOwner(t)
    \/ GlobalTry(t)
    \/ GlobalTryReturn(t)
    \/ CohortCsLoad(t)
    \/ CohortCsStore(t)
    \/ CohortUnlock(t)
    \/ CohortNodeUnlock(t)
    \/ GlobalUnlock(t)
    \/ TicketUnlock(t)
    \/ McsSteps(t)

\* the nodes construct the lock, set the counter to 0, access other data as
\* they like and meet at a barrier; then every thread of every node takes
\* the lock, increments the counter and unlocks
CohortNext ==
    \/ \E n \in Nodes : LockConstruct(n)
    \/ \E n \in Nodes : CounterInit(n)
    \/ \E t \in Threads, a \in LockAddrs : LockPreRead(t, a)
    \/ \E t \in Threads : ProgBarrier(t)
    \/ BarrierSteps
    \/ \E n \in Nodes : AtomicOp(n)
    \/ \E t \in Threads : CohortThread(t)

\* the counter lies on one of the first two pages of node 0
CohortData == {FirstByte(OwnPage(0)), FirstByte(OwnPage(0) + 1)}

CohortInit == LockInit({"cohort"}, CohortOps) /\ param.data \in CohortData

CohortSpec == CohortInit /\ [][CohortNext]_vars

\* the same program with handoverIter iterations of the first thread of
\* node 0 and no access before the barrier
HandoverNext ==
    \/ \E n \in Nodes : LockConstruct(n)
    \/ \E n \in Nodes : CounterInit(n)
    \/ \E t \in Threads : ProgBarrier(t)
    \/ BarrierSteps
    \/ \E n \in Nodes : AtomicOp(n)
    \/ \E t \in Threads : CohortThread(t)

HandoverSpec == LockInit({"handover"}, 0) /\ [][HandoverNext]_vars

\* the steps of thread t in a program whose critical section is empty
ForeverThread(t) ==
    \/ CohortLock(t)
    \/ CohortOwner(t)
    \/ TicketTake(t)
    \/ TicketSpin(t)
    \/ CohortSetOwner(t)
    \/ GlobalTry(t)
    \/ GlobalTryReturn(t)
    \/ CohortCsSkip(t)
    \/ CohortUnlock(t)
    \/ CohortNodeUnlock(t)
    \/ GlobalUnlock(t)
    \/ TicketUnlock(t)
    \/ McsSteps(t)

\* the first thread of node 0 takes the lock again and again, the other
\* threads take it once
ForeverNext ==
    \/ \E n \in Nodes : LockConstruct(n)
    \/ \E n \in Nodes : CounterInit(n)
    \/ \E t \in Threads : ProgBarrier(t)
    \/ BarrierSteps
    \/ \E n \in Nodes : AtomicOp(n)
    \/ \E t \in Threads : ForeverThread(t)

\* the counter, which the critical section leaves alone, is the first word
ForeverInit == LockInit({"forever"}, 0) /\ param.data = FirstByte(OwnPage(0))

\* thread t can take a step of lock() or unlock(): the guards of its actions
CohortCanStep(t) ==
    LET n == NodeOf(t)
        l == local[t].lock
    IN  \/ /\ CohortRuns(t)
           /\ nbar[Main(n)] = 1
           /\ (pc[t] = "run" /\ t = Main(n)) \/ pc[t] \in {"off", "next"}
           /\ KeepsRequesting(t) \/ local[t].done < CohortIterations(t)
        \/ pc[t] \in {"lock", "lock.xchg", "lock.mark", "lock.link", "unlock",
                       "unlock.cas", "unlock.notify", "co.owner", "tk.take",
                       "co.setowner", "cs", "co.unlock", "co.node"}
        \/ pc[t] = "lock.spin" /\ ~selfs[t][l].locked
        \/ pc[t] = "unlock.wait" /\ selfs[t][l].next # NoThread
        \/ pc[t] = "tk.spin" /\ out_counter[n] = local[t].ticket
        \/ pc[t] \in {"g.try", "g.unlock"} /\ reg[n].stage = "idle"
        \/ pc[t] \in {"g.ret", "tk.unlock"}

\* a step of thread t, the one-sided operation of its atomic call included
CohortMoved(t) ==
    \/ pc'[t] # pc[t]
    \/ pc[t] \in {"g.ret", "tk.unlock"} /\ reg'[NodeOf(t)] # reg[NodeOf(t)]

ForeverSafe == ForeverInit /\ [][ForeverNext]_vars

\* MPI_Barrier returns once every node has entered it, and every thread is
\* scheduled again and again (weak fairness of the steps of each thread, with
\* CohortCanStep for their enabling condition)
ForeverSpec ==
    /\ ForeverSafe
    /\ WF_vars(MPIBarrier)
    /\ \A t \in Threads : []<>(~CohortCanStep(t)) \/ []<><<CohortMoved(t)>>_vars

(************************* claims about cohort_lock ************************)
\* thread t is in the critical section: between lock() and unlock()
InCs(t) == pc[t] \in {"cs", "inc", "co.unlock"}

RECURSIVE SumDone(_)
SumDone(S) ==
    IF S = {} THEN 0
    ELSE LET t == CHOOSE u \in S : TRUE
         IN  local[t].done + SumDone(S \ {t})

\* C11: at most one thread of the cluster is in the critical section, and it
\* reads in the counter the number of increments made before, so that no
\* increment is lost
C11_CohortLock ==
    /\ Cardinality({t \in Threads : InCs(t)}) <= 1
    /\ \A t \in Threads : pc[t] = "inc" => local[t].tmp = SumDone(Threads)

\* a thread holds the lock after a thread of another node, and has read
\* that thread's increment in the counter
C11_Witness ==
    \E t \in Threads :
        /\ pc[t] = "inc"
        /\ local[t].tmp = SumDone(Threads)
        /\ \E u \in Threads : NodeOf(u) # NodeOf(t) /\ local[u].done > 0

(************************ data distribution policies ************************)
\* env::allocation_block_size() * granularity
pageblock == allocation_block_size * granularity

\* base_distribution::get_ptr, relative to start_address
get_ptr(homenode, offset) == homenode * size_per_node + offset

\* naive_distribution::homenode
naive_homenode(ptr) ==
    LET addr == ptr
        homenode == addr \div size_per_node
    IN  IF homenode >= nodes THEN msg_fetch_homenode_fail ELSE homenode

\* naive_distribution::local_offset
naive_local_offset(ptr) ==
    LET addr == ptr
        home == naive_homenode(ptr)
        offset == addr - home * size_per_node
    IN  IF home = msg_fetch_homenode_fail THEN msg_fetch_homenode_fail
        ELSE IF offset >= size_per_node THEN msg_fetch_offset_fail
        ELSE offset

\* a cyclic policy that takes each page, not each block, as a round
cyclic_homenode_by_page(ptr) ==
    LET addr == (ptr \div granularity) * granularity
        pagenum == addr \div granularity
        homenode == pagenum % nodes
    IN  IF homenode >= nodes THEN msg_fetch_homenode_fail ELSE homenode

\* cyclic_distribution::homenode
cyclic_homenode(ptr) ==
    LET addr == (ptr \div granularity) * granularity
        pagenum == addr \div pageblock
        homenode == pagenum % nodes
    IN  IF homenode >= nodes THEN msg_fetch_homenode_fail ELSE homenode

\* cyclic_distribution::local_offset
cyclic_local_offset(ptr) ==
    LET drift == ptr % granularity
        addr == (ptr \div granularity) * granularity
        pagenum == addr \div pageblock
        offset == (pagenum \div nodes) * pageblock + (addr % pageblock) + drift
    IN  IF offset >= size_per_node THEN msg_fetch_offset_fail ELSE offset

\* skew_mapp_distribution::homenode
skew_mapp_homenode(ptr) ==
    LET addr == (ptr \div granularity) * granularity
        pagenum == addr \div pageblock
        homenode == (pagenum + pagenum \div nodes + 1) % nodes
    IN  IF homenode >= nodes THEN msg_fetch_homenode_fail ELSE homenode

\* an offset that leaves out the blocks the node got before
skew_mapp_local_offset_in_block(ptr) ==
    LET drift == ptr % granularity
        addr == (ptr \div granularity) * granularity
        offset == (addr % pageblock) + drift
    IN  IF offset >= size_per_node THEN msg_fetch_offset_fail ELSE offset

\* skew_mapp_distribution::local_offset
skew_mapp_local_offset(ptr) ==
    LET drift == ptr % granularity
        addr == (ptr \div granularity) * granularity
        pagenum == addr \div pageblock
        offset == (pagenum \div nodes) * pageblock + (addr % pageblock) + drift
    IN  IF offset >= size_per_node THEN msg_fetch_offset_fail ELSE offset

\* prime_mapp_distribution: prime = (3 * nodes) / 2
prime == (3 * nodes) \div 2

\* prime_mapp_distribution::homenode
prime_mapp_homenode(ptr) ==
    LET addr == (ptr \div granularity) * granularity
        pagenum == addr \div pageblock
        homenode == IF (pagenum % prime) >= nodes
                    THEN ((pagenum \div prime) * (prime - nodes)
                          + ((pagenum % prime) - nodes)) % nodes
                    ELSE pagenum % prime
    IN  IF homenode >= nodes THEN msg_fetch_homenode_fail ELSE homenode

\* prime_mapp_distribution::local_offset, the scan
\* for (addr -= pageblock; ; addr -= pageblock) from its body on
RECURSIVE prime_mapp_scan(_, _, _, _)
prime_mapp_scan(addr, realhome, homecounter, drift) ==
    LET pagenum == addr \div pageblock
        currhome == prime_mapp_homenode(addr)
        counted == homecounter + (IF currhome = realhome THEN 1 ELSE 0)
    IN  IF \/ (addr <= nodes * pageblock) /\ (currhome = realhome)
           \/ ((pagenum % prime) >= nodes) /\ (currhome = realhome)
        THEN (pagenum \div nodes) * pageblock + (addr % pageblock)
             + counted * pageblock + drift
        ELSE prime_mapp_scan(addr - pageblock, realhome, counted, drift)

\* prime_mapp_distribution::local_offset
prime_mapp_local_offset(ptr) ==
    LET drift == ptr % granularity
        addr == (ptr \div granularity) * granularity
        pagenum == addr \div pageblock
        offset ==
            IF (addr <= nodes * pageblock) \/ ((pagenum % prime) >= nodes)
            THEN (pagenum \div nodes) * pageblock + (addr % pageblock) + drift
            ELSE prime_mapp_scan(addr - pageblock, prime_mapp_homenode(ptr),
                                 0, drift)
    IN  IF offset >= size_per_node THEN msg_fetch_offset_fail ELSE offset

\* the sizes of the global memory that are tried
MaxNodes == 3
MaxChunk == 4
MaxBlock == 2

\* argo_initialize makes the size a multiple of pagesize * CACHELINE * numtasks
\* before the memory pool hands it to set_memory_space
DistInit ==
    /\ EngineInit
    /\ ProgInit(threadsPerNode, 0)
    /\ param = [barriers |-> 0]
    /\ LockVarsInit
    /\ \E n \in 1 .. MaxNodes, k \in 1 .. MaxChunk, b \in 1 .. MaxBlock :
          set_memory_space(n, align_forwards(k * n * granularity,
                                             granularity * CACHELINE * n), b)
    /\ FtTablesInit
    /\ PoolInit
    /\ SbInit(<< >>)
    /\ ExtInit

DistFrame == UNCHANGED <<engineVars, progVars, lockVars, nodes, total_size,
                         size_per_node, allocation_block_size, ftVars,
                         poolVars, sbVars, extVars>>

\* global_ptr(ptr) with Dist = naive_distribution
NaiveLookup ==
    \E ptr \in 0 .. (total_size - 1) :
        /\ looked' = [policy |-> "naive", ptr |-> ptr,
                      homenode |-> naive_homenode(ptr),
                      local_offset |-> naive_local_offset(ptr)]
        /\ DistFrame

\* global_ptr(ptr) with Dist = cyclic_distribution
CyclicLookup ==
    \E ptr \in 0 .. (total_size - 1) :
        /\ looked' = [policy |-> "cyclic", ptr |-> ptr,
                      homenode |-> cyclic_homenode(ptr),
                      local_offset |-> cyclic_local_offset(ptr)]
        /\ DistFrame

\* global_ptr(ptr) with Dist = skew_mapp_distribution
SkewMappLookup ==
    \E ptr \in 0 .. (total_size - 1) :
        /\ looked' = [policy |-> "skew_mapp", ptr |-> ptr,
                      homenode |-> skew_mapp_homenode(ptr),
                      local_offset |-> skew_mapp_local_offset(ptr)]
        /\ DistFrame

\* global_ptr(ptr) with Dist = prime_mapp_distribution
PrimeMappLookup ==
    \E ptr \in 0 .. (total_size - 1) :
        /\ looked' = [policy |-> "prime_mapp", ptr |-> ptr,
                      homenode |-> prime_mapp_homenode(ptr),
                      local_offset |-> prime_mapp_local_offset(ptr)]
        /\ DistFrame

DistNext ==
    \/ NaiveLookup
    \/ CyclicLookup
    \/ SkewMappLookup
    \/ PrimeMappLookup

DistSpec == DistInit /\ [][DistNext]_vars

(******************* claims about the distribution policies *****************)
\* C15: whatever address inside the global memory a static policy is asked
\* about, it returns a home node in 0 .. nodes-1 and an offset in
\* 0 .. size_per_node-1
C15_PolicyRange ==
    looked.policy # "none" =>
        /\ looked.homenode \in 0 .. (nodes - 1)
        /\ looked.local_offset \in 0 .. (size_per_node - 1)

\* prime-mapp was asked about an address of a memory of whole blocks
C15_Witness ==
    /\ looked.policy = "prime_mapp"
    /\ nodes > 1
    /\ size_per_node % pageblock = 0
    /\ looked.ptr >= nodes * pageblock

\* the addresses of node n's slab and of block b
Slab(n) == {a \in 0 .. (total_size - 1) : a \div size_per_node = n}
Block(b) == {a \in 0 .. (total_size - 1) : a \div pageblock = b}
\* the bands of nodes blocks each that lie inside the global memory
Bands == 0 .. ((total_size \div (pageblock * nodes)) - 1)

\* C16: the naive policy maps the addresses of each slab of size_per_node
\* bytes one-to-one onto the offsets of one node, and in each band of
\* nodes blocks the cyclic policy makes each node the home of exactly one
\* block, all of whose addresses it keeps on that node
C16_Bijection ==
    /\ \A n \in 0 .. (nodes - 1) :
          /\ \A a \in Slab(n) :
                /\ naive_homenode(a) = n
                /\ get_ptr(n, naive_local_offset(a)) = a
          /\ {naive_local_offset(a) : a \in Slab(n)} = 0 .. (size_per_node - 1)
    /\ \A k \in Bands :
          /\ \A n \in 0 .. (nodes - 1) :
                Cardinality({j \in 0 .. (nodes - 1) :
                    cyclic_homenode((k * nodes + j) * pageblock) = n}) = 1
          /\ \A j \in 0 .. (nodes - 1) : \A a \in Block(k * nodes + j) :
                cyclic_homenode(a) = cyclic_homenode((k * nodes + j) * pageblock)

\* the cyclic policy was asked about an address of the second band of a
\* memory with blocks of several pages on several nodes
C16_Witness ==
    /\ looked.policy = "cyclic"
    /\ nodes > 1
    /\ allocation_block_size > 1
    /\ looked.ptr \div (pageblock * nodes) = 1
    /\ 1 \in Bands
    /\ looked.homenode = nodes - 1

(************************ first_touch_distribution **************************)
is_all_equal_to(arr, val) == \A i \in 1 .. 3 : arr[i] = val
is_one_equal_to(arr, val) == \E i \in 1 .. 3 : arr[i] = val

\* 3 * (addr / granularity) and (addr / granularity) % nodes
owners_dir_window_index(addr) == 3 * (addr \div granularity)
cas_node(addr) == (addr \div granularity) % nodes

\* backend::atomic::_load_public_owners_dir: the three words of the page
_load_public_owners_dir(rank, disp) ==
    <<global_owners_dir[rank][disp], global_owners_dir[rank][disp + 1],
      global_owners_dir[rank][disp + 2]>>

\* backend::atomic::_store_public_owners_dir and _store_local_owners_dir:
\* the window with the three words of the page replaced
_store_owners_dir(desired, rank, disp) ==
    [global_owners_dir EXCEPT ![rank][disp] = desired[1],
                              ![rank][disp + 1] = desired[2],
                              ![rank][disp + 2] = desired[3]]

FtFrame == UNCHANGED <<engineVars, progVars, lockVars, distVars, poolVars, sbVars,
                       extVars>>

\* global pointers that the nodes make
FtCalls == 3

RECURSIVE FtMade(_)
FtMade(S) ==
    IF S = {} THEN 0
    ELSE LET r == CHOOSE x \in S : TRUE IN ftl[r].calls + FtMade(S \ {r})

\* the call of node r returns ret; its locals are gone
FtReturn(r, ret) ==
    [ftl EXCEPT ![r] = [NoCall EXCEPT !.op = ftl[r].op, !.ptr = ftl[r].ptr,
                                      !.addr = ftl[r].addr,
                                      !.drift = ftl[r].drift,
                                      !.result = ftl[r].result,
                                      !.calls = ftl[r].calls, !.ret = ret]]

\* global_ptr(ptr) calls homenode(ptr) and then local_offset(ptr); each up to
\* its call of update_dirs, with owners_mutex taken
FtCall(r, op, ptr) ==
    /\ ftl[r].pc = "idle"
    /\ IF op = "homenode"
       THEN ftl[r].op # "homenode" /\ FtMade(DOMAIN ftl) < FtCalls
       ELSE ftl[r].op = "homenode" /\ ftl[r].ptr = ptr /\ ftl[r].ret >= 0
    /\ ftl' = [ftl EXCEPT ![r] =
                  [NoCall EXCEPT !.pc = "ud.load", !.op = op, !.ptr = ptr,
                                 !.addr = (ptr \div granularity) * granularity,
                                 !.drift = ptr % granularity,
                                 !.calls = IF op = "homenode"
                                           THEN ftl[r].calls + 1
                                           ELSE ftl[r].calls]]
    /\ UNCHANGED <<global_owners_dir, global_offsets_tbl, claimed>>
    /\ FtFrame

\* update_dirs: the ownership word of the local window
UpdateDirsLoad(r) ==
    LET c == ftl[r]
        ownership == global_owners_dir[r][owners_dir_window_index(c.addr) + 2]
    IN  /\ c.pc = "ud.load"
        /\ ftl' = [ftl EXCEPT ![r].ownership = ownership,
                              ![r].pc = IF ownership = global_null
                                        THEN "ud.public" ELSE "spin"]
        /\ UNCHANGED <<global_owners_dir, global_offsets_tbl, claimed>>
        /\ FtFrame

\* update_dirs: the page info of the cas_node's window and what follows
UpdateDirsPublic(r) ==
    LET c == ftl[r]
        page_info == _load_public_owners_dir(cas_node(c.addr),
                                             owners_dir_window_index(c.addr))
    IN  /\ c.pc = "ud.public"
        /\ ftl' = [ftl EXCEPT ![r].page_info = page_info,
                              ![r].pc =
                                  IF is_all_equal_to(page_info, global_null)
                                  THEN "ft.cas"
                                  ELSE IF r = cas_node(c.addr) THEN "spin"
                                  ELSE IF is_one_equal_to(page_info, global_null)
                                  THEN "ud.wait"
                                  ELSE "ud.store"]
        /\ UNCHANGED <<global_owners_dir, global_offsets_tbl, claimed>>
        /\ FtFrame

\* update_dirs: while (is_one_equal_to(page_info, global_null)) load again
UpdateDirsWait(r) ==
    LET c == ftl[r]
        page_info == _load_public_owners_dir(cas_node(c.addr),
                                             owners_dir_window_index(c.addr))
    IN  /\ c.pc = "ud.wait"
        /\ ftl' = [ftl EXCEPT ![r].page_info = page_info,
                              ![r].pc =
                                  IF is_one_equal_to(page_info, global_null)
                                  THEN "ud.wait" ELSE "ud.store"]
        /\ UNCHANGED <<global_owners_dir, global_offsets_tbl, claimed>>
        /\ FtFrame

\* update_dirs: store page info in the local window
UpdateDirsStore(r) ==
    LET c == ftl[r]
    IN  /\ c.pc = "ud.store"
        /\ global_owners_dir' =
               _store_owners_dir(c.page_info, r, owners_dir_window_index(c.addr))
        /\ ftl' = [ftl EXCEPT ![r].pc = "spin"]
        /\ UNCHANGED <<global_offsets_tbl, claimed>>
        /\ FtFrame

\* a claim that does not look at the ownership word it replaces
FirstTouchTake(r) ==
    LET c == ftl[r]
        i == owners_dir_window_index(c.addr) + 2
    IN  /\ c.pc = "ft.cas"
        /\ global_owners_dir' =
               [global_owners_dir EXCEPT ![cas_node(c.addr)][i] = r]
        /\ claimed' = [claimed EXCEPT ![c.addr \div granularity] = @ \cup {r}]
        /\ ftl' = [ftl EXCEPT ![r].result = global_null, ![r].n = r,
                              ![r].searched = 0, ![r].pc = "ft.load"]
        /\ UNCHANGED global_offsets_tbl
        /\ FtFrame

\* first_touch: _compare_exchange_owners_dir(rank, global_null) on the
\* ownership word of the cas_node
FirstTouchCas(r) ==
    LET c == ftl[r]
        i == owners_dir_window_index(c.addr) + 2
        result == global_owners_dir[cas_node(c.addr)][i]
    IN  /\ c.pc = "ft.cas"
        /\ global_owners_dir' =
               [global_owners_dir EXCEPT ![cas_node(c.addr)][i] =
                   IF @ = global_null THEN r ELSE @]
        /\ claimed' = [claimed EXCEPT ![c.addr \div granularity] =
                          IF result = global_null THEN @ \cup {r} ELSE @]
        /\ ftl' = [ftl EXCEPT ![r].result = result, ![r].n = r,
                              ![r].searched = 0,
                              ![r].pc = IF result = global_null THEN "ft.load"
                                        ELSE IF r # cas_node(c.addr)
                                        THEN "ft.wait" ELSE "spin"]
        /\ UNCHANGED global_offsets_tbl
        /\ FtFrame

\* first_touch: the head of the for loop and _load_local_offsets_tbl, or the
\* throw after the loop found no node
FirstTouchLoad(r) ==
    LET c == ftl[r]
    IN  /\ c.pc = "ft.load"
        /\ ftl' = IF c.searched < nodes
                  THEN [ftl EXCEPT ![r].offset = global_offsets_tbl[r][c.n],
                                   ![r].pc = "ft.try"]
                  ELSE FtReturn(r, msg_first_touch_fail)
        /\ UNCHANGED <<global_owners_dir, global_offsets_tbl, claimed>>
        /\ FtFrame

\* a turn of the loop that stores the next offset without comparing
FirstTouchTryBlind(r) ==
    LET c == ftl[r]
    IN  /\ c.pc = "ft.try"
        /\ IF c.offset < size_per_node
           THEN /\ global_offsets_tbl' =
                       [global_offsets_tbl EXCEPT ![c.n][c.n] =
                           c.offset + granularity]
                /\ ftl' = [ftl EXCEPT ![r].result = c.offset,
                                      ![r].succeeded = TRUE,
                                      ![r].homenode = c.n,
                                      ![r].pc = "ft.cache"]
           ELSE /\ ftl' = [ftl EXCEPT ![r].pc = "ft.cache"]
                /\ UNCHANGED global_offsets_tbl
        /\ UNCHANGED <<global_owners_dir, claimed>>
        /\ FtFrame

\* first_touch: one turn of while (offset < size_per_node) with its
\* _compare_exchange_offsets_tbl, or the end of the loop
FirstTouchTry(r) ==
    LET c == ftl[r]
        result == global_offsets_tbl[c.n][c.n]
    IN  /\ c.pc = "ft.try"
        /\ IF c.offset < size_per_node
           THEN /\ global_offsets_tbl' =
                       [global_offsets_tbl EXCEPT ![c.n][c.n] =
                           IF @ = c.offset THEN c.offset + granularity ELSE @]
                /\ ftl' = IF result = c.offset
                          THEN [ftl EXCEPT ![r].result = result,
                                           ![r].succeeded = TRUE,
                                           ![r].homenode = c.n,
                                           ![r].pc = "ft.cache"]
                          ELSE [ftl EXCEPT ![r].result = result,
                                           ![r].offset = result]
           ELSE /\ ftl' = [ftl EXCEPT ![r].pc = "ft.cache"]
                /\ UNCHANGED global_offsets_tbl
        /\ UNCHANGED <<global_owners_dir, claimed>>
        /\ FtFrame

\* first_touch: cache the offset of a remote node, then leave the loop or go
\* to the next node
FirstTouchCache(r) ==
    LET c == ftl[r]
    IN  /\ c.pc = "ft.cache"
        /\ global_offsets_tbl' =
               IF c.n # r
               THEN [global_offsets_tbl EXCEPT ![r][c.n] = c.offset]
               ELSE global_offsets_tbl
        /\ ftl' = IF c.succeeded
                  THEN [ftl EXCEPT ![r].page_info = <<c.homenode, c.offset, r>>,
                                   ![r].pc = "ft.local"]
                  ELSE [ftl EXCEPT ![r].n = (c.n + 1) % nodes,
                                   ![r].searched = c.searched + 1,
                                   ![r].pc = "ft.load"]
        /\ UNCHANGED <<global_owners_dir, claimed>>
        /\ FtFrame

\* first_touch: store page info in the local window
FirstTouchLocal(r) ==
    LET c == ftl[r]
    IN  /\ c.pc = "ft.local"
        /\ global_owners_dir' =
               _store_owners_dir(c.page_info, r, owners_dir_window_index(c.addr))
        /\ ftl' = [ftl EXCEPT ![r].pc = IF r # cas_node(c.addr)
                                        THEN "ft.public" ELSE "spin"]
        /\ UNCHANGED <<global_offsets_tbl, claimed>>
        /\ FtFrame

\* first_touch: store page info in the public window of the cas_node
FirstTouchPublic(r) ==
    LET c == ftl[r]
    IN  /\ c.pc = "ft.public"
        /\ global_owners_dir' =
               _store_owners_dir(c.page_info, cas_node(c.addr),
                                 owners_dir_window_index(c.addr))
        /\ ftl' = [ftl EXCEPT ![r].pc = "spin"]
        /\ UNCHANGED <<global_offsets_tbl, claimed>>
        /\ FtFrame

\* first_touch, the CAS lost: do load the public page info
\* while (is_one_equal_to(page_info, global_null))
FirstTouchWait(r) ==
    LET c == ftl[r]
        page_info == _load_public_owners_dir(cas_node(c.addr),
                                             owners_dir_window_index(c.addr))
    IN  /\ c.pc = "ft.wait"
        /\ ftl' = [ftl EXCEPT ![r].page_info = page_info,
                              ![r].pc =
                                  IF is_one_equal_to(page_info, global_null)
                                  THEN "ft.wait" ELSE "ft.store"]
        /\ UNCHANGED <<global_owners_dir, global_offsets_tbl, claimed>>
        /\ FtFrame

\* first_touch, the CAS lost: store page info in the local window
FirstTouchStore(r) ==
    LET c == ftl[r]
    IN  /\ c.pc = "ft.store"
        /\ global_owners_dir' =
               _store_owners_dir(c.page_info, r, owners_dir_window_index(c.addr))
        /\ ftl' = [ftl EXCEPT ![r].pc = "spin"]
        /\ UNCHANGED <<global_offsets_tbl, claimed>>
        /\ FtFrame

\* homenode: the last turn of do _load_local_owners_dir
\* while (homenode == global_null), the range check and the return
first_touch_homenode(r) ==
    LET c == ftl[r]
        homenode == global_owners_dir[r][owners_dir_window_index(c.addr)]
    IN  /\ c.pc = "spin"
        /\ c.op = "homenode"
        /\ homenode # global_null
        /\ ftl' = FtReturn(r, IF homenode >= nodes
                               THEN msg_fetch_homenode_fail ELSE homenode)
        /\ UNCHANGED <<global_owners_dir, global_offsets_tbl, claimed>>
        /\ FtFrame

\* local_offset: the last turn of its loop, the drift, the range check and
\* the return
first_touch_local_offset(r) ==
    LET c == ftl[r]
        offset == global_owners_dir[r][owners_dir_window_index(c.addr) + 1]
    IN  /\ c.pc = "spin"
        /\ c.op = "local_offset"
        /\ offset # global_null
        /\ ftl' = FtReturn(r, IF offset + c.drift >= size_per_node
                               THEN msg_fetch_offset_fail ELSE offset + c.drift)
        /\ UNCHANGED <<global_owners_dir, global_offsets_tbl, claimed>>
        /\ FtFrame

FtStep(r) ==
    \/ UpdateDirsLoad(r)
    \/ UpdateDirsPublic(r)
    \/ UpdateDirsWait(r)
    \/ UpdateDirsStore(r)
    \/ FirstTouchCas(r)
    \/ FirstTouchLoad(r)
    \/ FirstTouchTry(r)
    \/ FirstTouchCache(r)
    \/ FirstTouchLocal(r)
    \/ FirstTouchPublic(r)
    \/ FirstTouchWait(r)
    \/ FirstTouchStore(r)
    \/ first_touch_homenode(r)
    \/ first_touch_local_offset(r)

\* the pages the nodes touch, and the pointers they ask about: the last byte
\* of each of these pages
FtPages == 3
FtPtrs == {p * granularity + (granularity - 1) :
              p \in {q \in 0 .. (FtPages - 1) : q * granularity < total_size}}

FtInit ==
    /\ EngineInit
    /\ ProgInit(threadsPerNode, 0)
    /\ param = [barriers |-> 0]
    /\ LockVarsInit
    /\ \E n \in 2 .. MaxNodes :
          set_memory_space(n, align_forwards(n * granularity,
                                             granularity * CACHELINE * n), 1)
    /\ FtTablesInit
    /\ PoolInit
    /\ SbInit(<< >>)
    /\ ExtInit

FtNext ==
    \/ \E r \in 0 .. (nodes - 1), ptr \in FtPtrs : FtCall(r, "homenode", ptr)
    \/ \E r \in 0 .. (nodes - 1), ptr \in FtPtrs : FtCall(r, "local_offset", ptr)
    \/ \E r \in 0 .. (nodes - 1) : FtStep(r)

FtSpec == FtInit /\ [][FtNext]_vars

\* each node is a process of its own and its waits are loops of loads
FtFairSpec ==
    FtSpec /\ \A r \in 0 .. (MaxNodes - 1) : WF_vars(r < nodes /\ FtStep(r))

(*********************** claims about first touch ***************************)
FtPageNos == 0 .. ((total_size \div granularity) - 1)
FtNodes == 0 .. (nodes - 1)
\* the page of the call of node r
FtPage(r) == ftl[r].addr \div granularity

\* at most one node has claimed each page, and the ownership word of the
\* page's cas_node names it
OneClaimant ==
    \A p \in FtPageNos :
        /\ Cardinality(claimed[p]) <= 1
        /\ \A c \in claimed[p] :
              global_owners_dir[cas_node(p * granularity)][3 * p + 2] = c
        /\ claimed[p] = {} =>
              \A r \in FtNodes, k \in 0 .. 2 :
                  global_owners_dir[r][3 * p + k] = global_null

\* whatever home node or offset of a page a window holds is the one in the
\* window of the page's claimant
SameAsClaimant ==
    \A p \in FtPageNos, r \in FtNodes, k \in 0 .. 1 :
        global_owners_dir[r][3 * p + k] # global_null =>
            \A c \in claimed[p] :
                global_owners_dir[r][3 * p + k] = global_owners_dir[c][3 * p + k]

\* a call that has returned has returned what the claimant published
ReturnsPublished ==
    \A r \in FtNodes :
        (ftl[r].pc = "idle" /\ ftl[r].op # "none") =>
            /\ claimed[FtPage(r)] # {}
            /\ \A c \in claimed[FtPage(r)] :
                  /\ ftl[r].op = "homenode" =>
                        ftl[r].ret = global_owners_dir[c][3 * FtPage(r)]
                  /\ ftl[r].op = "local_offset" =>
                        ftl[r].ret =
                            global_owners_dir[c][3 * FtPage(r) + 1] + ftl[r].drift

\* a word of a window that is set stays as it is
PublishedStays ==
    \A r \in FtNodes : \A i \in DOMAIN global_owners_dir[r] :
        global_owners_dir[r][i] # global_null =>
            global_owners_dir'[r][i] = global_owners_dir[r][i]

\* C14: of the nodes that fault an unclaimed page exactly one wins the
\* compare-and-swap and is its claimant, a node returns from homenode and
\* local_offset only with the home node and the offset that the claimant
\* published, and a published entry never changes
C14_FirstTouch ==
    /\ [](OneClaimant /\ SameAsClaimant /\ ReturnsPublished)
    /\ [][PublishedStays]_vars

\* under FtFairSpec every call of homenode and local_offset returns
FtReturns ==
    \A r \in 0 .. (MaxNodes - 1) :
        (r < nodes /\ ftl[r].pc # "idle") ~> (r < nodes /\ ftl[r].pc = "idle")

\* node 1 claimed page 0, whose cas_node is node 0; node 0 lost the
\* compare-and-swap for it and has returned from homenode with the home node
\* that node 1 published
C14_Witness ==
    /\ claimed[0] = {1}
    /\ ftl[0].pc = "idle"
    /\ ftl[0].op = "homenode"
    /\ FtPage(0) = 0
    /\ ftl[0].result = 1
    /\ ftl[0].ret = global_owners_dir[1][0]

\* the home nodes and offsets that first touch hands out are in range and no
\* two pages get the same backing page
FtRange ==
    /\ \A r \in FtNodes :
          (ftl[r].pc = "idle" /\ ftl[r].op = "homenode") => ftl[r].ret \in FtNodes
    /\ \A r \in FtNodes :
          (ftl[r].pc = "idle" /\ ftl[r].op = "local_offset") =>
              ftl[r].ret \in 0 .. (size_per_node - 1)
    /\ \A p, q \in FtPageNos, r \in FtNodes :
          (/\ p # q
           /\ global_owners_dir[r][3 * p] # global_null
           /\ global_owners_dir[r][3 * p + 1] # global_null
           /\ global_owners_dir[r][3 * q] # global_null
           /\ global_owners_dir[r][3 * q + 1] # global_null) =>
              <<global_owners_dir[r][3 * p], global_owners_dir[r][3 * p + 1]>>
              # <<global_owners_dir[r][3 * q], global_owners_dir[r][3 * q + 1]>>

(*************************** global_memory_pool *****************************)
\* the largest std::size_t, scaled down with the global memory
SIZE_MAX == 2 * size_of_all - 1
\* arithmetic of std::size_t
SizeT(x) == x % (SIZE_MAX + 1)

\* calls of the pool that the nodes make
PoolOps == 3

PoolFrame == UNCHANGED <<engineVars, progVars, lockVars, distVars, ftVars, sbVars,
                         extVars>>

\* a node calls reserve(size) or available()
PoolCall(n, op, size) ==
    /\ mpl[n].pc = "idle"
    /\ mpcalls < PoolOps
    /\ mpl' = [mpl EXCEPT ![n] = [NoPoolCall EXCEPT !.pc = "lock", !.op = op,
                                                    !.size = size]]
    /\ mpcalls' = mpcalls + 1
    /\ UNCHANGED mempool
    /\ PoolFrame

\* global_tas_lock->lock()
PoolLock(n) ==
    /\ mpl[n].pc = "lock"
    /\ mempool.lock = NoNode
    /\ mempool' = [mempool EXCEPT !.lock = n]
    /\ mpl' = [mpl EXCEPT ![n].pc = "body"]
    /\ UNCHANGED mpcalls
    /\ PoolFrame

\* reserve: if (*offset+size > max_size) unlock and throw bad_alloc, else
\* ptr = &memory[*offset]; *offset += size
reserve(n) ==
    LET c == mpl[n]
    IN  /\ c.pc = "body"
        /\ c.op = "reserve"
        /\ IF SizeT(mempool.offset + c.size) > mempool.max_size
           THEN /\ mempool' = [mempool EXCEPT !.lock = NoNode]
                /\ mpl' = [mpl EXCEPT ![n].seen = mempool.offset,
                                      ![n].ret = "bad_alloc",
                                      ![n].pc = "idle"]
           ELSE /\ mempool' = [mempool EXCEPT
                                  !.offset = SizeT(mempool.offset + c.size)]
                /\ mpl' = [mpl EXCEPT ![n].seen = mempool.offset,
                                      ![n].ptr = mempool.offset,
                                      ![n].pc = "unlock"]
        /\ UNCHANGED mpcalls
        /\ PoolFrame

\* available: avail = max_size - *offset
available(n) ==
    LET c == mpl[n]
    IN  /\ c.pc = "body"
        /\ c.op = "available"
        /\ mpl' = [mpl EXCEPT ![n].seen = mempool.offset,
                              ![n].avail = SizeT(mempool.max_size - mempool.offset
                                                 + (SIZE_MAX + 1)),
                              ![n].pc = "unlock"]
        /\ UNCHANGED <<mempool, mpcalls>>
        /\ PoolFrame

\* global_tas_lock->unlock() and the return
PoolUnlock(n) ==
    /\ mpl[n].pc = "unlock"
    /\ mempool' = [mempool EXCEPT !.lock = NoNode]
    /\ mpl' = [mpl EXCEPT ![n].ret = "ok", ![n].pc = "idle"]
    /\ UNCHANGED mpcalls
    /\ PoolFrame

\* grow: throw std::bad_alloc()
grow(n) ==
    /\ mpl[n].pc = "idle"
    /\ mpcalls < PoolOps
    /\ mpl' = [mpl EXCEPT ![n] = [NoPoolCall EXCEPT !.op = "grow",
                                                    !.ret = "bad_alloc"]]
    /\ mpcalls' = mpcalls + 1
    /\ UNCHANGED mempool
    /\ PoolFrame

PoolInitial ==
    /\ EngineInit
    /\ ProgInit(threadsPerNode, 0)
    /\ param = [barriers |-> 0]
    /\ LockVarsInit
    /\ set_memory_space(numtasks, size_of_all, 1)
    /\ FtTablesInit
    /\ PoolInit
    /\ SbInit(<< >>)
    /\ ExtInit

PoolNext ==
    \/ \E n \in Nodes, size \in 0 .. SIZE_MAX : PoolCall(n, "reserve", size)
    \/ \E n \in Nodes : PoolCall(n, "available", 0)
    \/ \E n \in Nodes : PoolLock(n)
    \/ \E n \in Nodes : reserve(n)
    \/ \E n \in Nodes : available(n)
    \/ \E n \in Nodes : PoolUnlock(n)
    \/ \E n \in Nodes : grow(n)

PoolSpec == PoolInitial /\ [][PoolNext]_vars

(********************** claims about the memory pool ************************)
\* a reserve that has looked at the offset has failed exactly if the offset
\* it saw and its size together pass max_size
ReserveFits ==
    \A n \in Nodes :
        (mpl[n].op = "reserve" /\ mpl[n].pc \in {"unlock", "idle"}) =>
            ((mpl[n].ret = "bad_alloc") <=>
                 (mpl[n].seen + mpl[n].size > mempool.max_size))

\* a call that has returned, by a throw as well, does not hold the lock, and
\* the offset stays inside the pool
PoolLockFree ==
    /\ \A n \in Nodes : mpl[n].pc = "idle" => mempool.lock # n
    /\ mempool.offset <= mempool.max_size

\* a reserve that throws leaves the offset as it is, and once all of the pool
\* is handed out the offset stays at max_size
PoolStays ==
    /\ \A n \in Nodes :
          (mpl[n].pc = "body" /\ mpl'[n].ret = "bad_alloc") =>
              mempool'.offset = mempool.offset
    /\ mempool.offset = mempool.max_size =>
          mempool'.offset = mempool.max_size

\* C17: a reserve(size) that would move the offset past max_size throws,
\* leaves the offset unchanged and releases the lock of the pool; a reserve
\* that fits succeeds, so does one of exactly available() bytes, and after it
\* every reserve of one byte or more fails
C17_PoolExhausted ==
    /\ [](ReserveFits /\ PoolLockFree)
    /\ [][PoolStays]_vars

\* a reserve of all that was available succeeded, and a later reserve of a
\* byte or more by the other node has thrown and left the lock free
C17_Witness ==
    /\ mempool.offset = mempool.max_size
    /\ mempool.lock = NoNode
    /\ mpl[0].pc = "idle" /\ mpl[0].op = "reserve" /\ mpl[0].ret = "ok"
    /\ mpl[0].size = mempool.max_size - reserved
    /\ mpl[1].pc = "idle" /\ mpl[1].op = "reserve" /\ mpl[1].ret = "bad_alloc"
    /\ mpl[1].seen = mempool.max_size
    /\ mpl[1].size > 0

(********************* the barrier of the singlenode backend ****************)
SbFrame == UNCHANGED <<engineVars, progVars, lockVars, distVars, ftVars, poolVars,
                       extVars>>

\* the barriers that thread t still has to call, and the next of them
SbTodo(t) == {j \in 1 .. Len(sbprog) : j > sbl[t].k /\ t \in sbprog[j]}
SbNextRound(t) == CHOOSE j \in SbTodo(t) : \A i \in SbTodo(t) : j <= i
\* threadcount of barrier k
threadcount(k) == Cardinality(sbprog[k])

\* barrier from "all threads synchronized here" on, entered with the counter
\* c and the flag set, up to the last wait or the return: barrier_counter--,
\* the last thread clears the flag, wait for !barrier_flag
SbLeave(t, k, c) ==
    /\ barrier_counter' = c - 1
    /\ barrier_flag' = (c - 1 # 0)
    /\ opened' = [opened EXCEPT ![k] = @ \/ (c - 1 = 0)]
    /\ sbl' = [sbl EXCEPT ![t] = [pc |-> IF c - 1 # 0 THEN "w2" ELSE "out",
                                  k |-> k]]

\* a thread blocks in one of the waits; nothing else changes but the counter
SbBlock(t, k, c, w) ==
    /\ barrier_counter' = c
    /\ sbl' = [sbl EXCEPT ![t] = [pc |-> w, k |-> k]]
    /\ UNCHANGED <<barrier_flag, opened>>

\* barrier(threadcount) from the lock of barrier_mutex up to the first wait
\* that blocks, or to the return; the barriers follow one another
SbEnter(t) ==
    /\ sbl[t].pc = "out"
    /\ SbTodo(t) # {}
    /\ LET k == SbNextRound(t)
           c == barrier_counter + 1
       IN  /\ \A i \in 1 .. (k - 1) : opened[i]
           /\ arrived' = [arrived EXCEPT ![k] = @ \cup {t}]
           /\ IF c = threadcount(k)
              THEN IF barrier_flag
                   THEN SbBlock(t, k, c, "w0")
                   ELSE SbLeave(t, k, c)
              ELSE IF barrier_flag
                   THEN SbLeave(t, k, c)
                   ELSE SbBlock(t, k, c, "w1")
    /\ UNCHANGED sbprog
    /\ SbFrame

\* a thread in barrier_cv.wait is woken with the predicate of its wait true,
\* and goes on to the next wait that blocks, or to the return
SbWake(t) ==
    /\ CASE sbl[t].pc = "w0" ->
                /\ ~barrier_flag
                /\ SbLeave(t, sbl[t].k, barrier_counter)
         [] sbl[t].pc = "w1" ->
                /\ barrier_flag
                /\ SbLeave(t, sbl[t].k, barrier_counter)
         [] sbl[t].pc = "w2" ->
                /\ ~barrier_flag
                /\ sbl' = [sbl EXCEPT ![t].pc = "out"]
                /\ UNCHANGED <<barrier_counter, barrier_flag, opened>>
         [] OTHER -> FALSE
    /\ UNCHANGED <<sbprog, arrived>>
    /\ SbFrame

SbStep(t) == SbEnter(t) \/ SbWake(t)

\* the programs: which threads call each of the barriers
SbPrograms == [1 .. SbRounds -> (SUBSET SbThreads) \ {{}}]

SbInitial ==
    /\ EngineInit
    /\ ProgInit(threadsPerNode, 0)
    /\ param = [barriers |-> 0]
    /\ LockVarsInit
    /\ set_memory_space(numtasks, size_of_all, 1)
    /\ FtTablesInit
    /\ PoolInit
    /\ \E prog \in SbPrograms : SbInit(prog)
    /\ ExtInit

SbNext == \E t \in SbThreads : SbStep(t)

\* every thread runs, and a thread whose wait can end is woken
SbSpec == SbInitial /\ [][SbNext]_vars /\ \A t \in SbThreads : WF_vars(SbStep(t))

(********************* claims about the singlenode barrier ******************)
\* a thread that is past the wait for the flag of barrier k, or back from it,
\* has seen all threads of barrier k arrive
SbAllArrived ==
    \A t \in SbThreads :
        (sbl[t].k > 0 /\ sbl[t].pc \in {"w2", "out"}) =>
            arrived[sbl[t].k] = sbprog[sbl[t].k]

\* the counter counts the threads that have arrived at the barrier in
\* progress and not yet left its wait for the flag
SbCounted ==
    barrier_counter = Cardinality({t \in SbThreads : sbl[t].pc \in {"w0", "w1"}})

\* a thread in the last wait of a barrier whose threads have all left the wait
\* for the flag can go on: the flag is not set by a later barrier
SbNotBlocked ==
    \A t \in SbThreads :
        (sbl[t].pc = "w2" /\ opened[sbl[t].k]) => ~barrier_flag

\* every thread inside a barrier returns from it
SbReturns == \A t \in SbThreads : (sbl[t].pc # "out") ~> (sbl[t].pc = "out")

\* C18: a thread returns from a barrier only after all threads of that
\* barrier have arrived, a thread still inside a barrier is neither counted
\* in nor blocked by the following barrier, and every thread of a barrier
\* returns from it
C18_Barrier ==
    /\ [](SbAllArrived /\ SbCounted /\ SbNotBlocked)
    /\ SbReturns

\* thread 3 is in the last wait of the first barrier, which all three
\* threads called, while threads 1 and 2 are in the second barrier
C18_Witness ==
    /\ Len(sbprog) >= 2
    /\ sbprog[1] = SbThreads
    /\ sbprog[2] = {1, 2}
    /\ sbl[3] = [pc |-> "w2", k |-> 1]
    /\ opened[1]
    /\ arrived[2] = {1, 2}

(***************** the page cache under arbitrary operations ***************)
\* operations one run makes
CacheOps == 5

\* the addresses the operations name: the first byte of every page
CacheAddrs == {FirstByte(p) : p \in PageNos}

CacheFrame ==
    UNCHANGED <<pc, nbar, barriermutex, reg, shadow, acc, obs, param, otherVars>>

\* an access of node n that the page does not permit: the handler runs once
CacheFault(n, a, write) ==
    /\ ops > 0
    /\ ~Permits(prot[n][PageOf(a)], write)
    /\ SetEngine(handler(Engine, n, a))
    /\ ops' = ops - 1
    /\ CacheFrame

\* a store of node n that the page permits
CacheStore(n, a) ==
    /\ ops > 0
    /\ Permits(prot[n][PageOf(a)], TRUE)
    /\ SetEngine(WriteVirt(Engine, n, a, (ReadVirt(Engine, n, a) + 1) % (MaxVal + 1)))
    /\ ops' = ops - 1
    /\ CacheFrame

CacheAcquire(n) ==
    /\ ops > 0
    /\ SetEngine(argo_acquire(Engine, n))
    /\ ops' = ops - 1
    /\ CacheFrame

CacheRelease(n) ==
    /\ ops > 0
    /\ SetEngine(argo_release(Engine, n))
    /\ ops' = ops - 1
    /\ CacheFrame

CacheSelectiveAcquire(n, a, size) ==
    /\ ops > 0
    /\ a + size <= size_of_all
    /\ SetEngine(_selective_acquire(Engine, n, a, size))
    /\ ops' = ops - 1
    /\ CacheFrame

CacheSelectiveRelease(n, a, size) ==
    /\ ops > 0
    /\ a + size <= size_of_all
    /\ SetEngine(_selective_release(Engine, n, a, size))
    /\ ops' = ops - 1
    /\ CacheFrame

CacheInit ==
    /\ EngineInit
    /\ ProgInit(1, CacheOps)
    /\ param = [barriers |-> 0]
    /\ OtherInit

CacheNext ==
    \/ \E n \in Nodes, a \in CacheAddrs, write \in BOOLEAN : CacheFault(n, a, write)
    \/ \E n \in Nodes, a \in CacheAddrs : CacheStore(n, a)
    \/ \E n \in Nodes : CacheAcquire(n)
    \/ \E n \in Nodes : CacheRelease(n)
    \/ \E n \in Nodes, a \in CacheAddrs, size \in 1 .. MaxRange :
          CacheSelectiveAcquire(n, a, size)
    \/ \E n \in Nodes, a \in CacheAddrs, size \in 1 .. MaxRange :
          CacheSelectiveRelease(n, a, size)

CacheSpec == CacheInit /\ [][CacheNext]_vars

(************************ claims about the page cache *********************)
\* C19: whenever the cache lock of a node is free (between two operations),
\* every cache line of the node whose dirty flag is DIRTY has its slot index
\* in the node's write buffer
C19_DirtyInBuffer ==
    \A n \in Nodes, s \in Slots :
        cacheControl[n][s].dirty = DIRTY => has(argo_write_buffer[n], s)

\* C19, the case: a line is DIRTY and in the write buffer after a partial
\* flush wrote another line of the node back
C19_Witness ==
    \E n \in Nodes, s, r \in Slots :
        /\ s # r
        /\ cacheControl[n][s].dirty = DIRTY
        /\ has(argo_write_buffer[n], s)
        /\ cacheControl[n][r].state = VALID
        /\ cacheControl[n][r].dirty = CLEAN
        /\ \E i \in 0 .. (pagesize - 1) :
              cacheData[n][r * pagesize + i] # 0

\* the operation that leads to the next state evicts the DIRTY line in slot s
\* of node n: the slot held a line and holds another one afterwards
EvictsDirty(n, s) ==
    /\ cacheControl[n][s].dirty = DIRTY
    /\ cacheControl[n][s].tag # GLOBAL_NULL
    /\ cacheControl'[n][s].tag # cacheControl[n][s].tag

\* every byte of the line in slot s that differs from its twin is in the
\* home memory of the line after the operation
WrittenHome(n, s) ==
    LET tag == cacheControl[n][s].tag
    IN  \A i \in 0 .. (pagesize * CACHELINE - 1) :
            cacheData[n][s * pagesize + i] # pagecopy[n][s * pagesize + i]
                => globalData'[getHomenode(tag)][getOffset(tag) + i]
                       = cacheData[n][s * pagesize + i]

EvictedClean(n, s) ==
    /\ cacheControl'[n][s].dirty = CLEAN
    /\ ~has(argo_write_buffer'[n], s)

\* C20: an operation that evicts a DIRTY line from a slot leaves every byte
\* the node changed in the line in the line's home memory, and it leaves the
\* slot CLEAN and out of the write buffer
C20_EvictionWritesBack ==
    [][\A n \in Nodes, s \in Slots :
          EvictsDirty(n, s) => WrittenHome(n, s) /\ EvictedClean(n, s)]_vars

\* C20, the case: after a fault, a write fault, a store and the fault that
\* evicts the line, the slot holds another line, CLEAN and out of the write
\* buffer, and the home memory of the evicted line, which its home node never
\* touched, holds the byte stored
C20_Witness ==
    \E n \in Nodes, s \in Slots, h \in Nodes, o \in 0 .. (size_of_chunk - 1) :
        /\ h # n
        /\ ops = CacheOps - 4
        /\ globalData[h][o] # 0
        /\ prot[h][PageOf(h * size_of_chunk + o)] = PROT_NONE
        /\ getCacheIndex(h * size_of_chunk + o) = s
        /\ cacheControl[n][s].tag
              # align_backwards(h * size_of_chunk + o, pagesize * CACHELINE)
        /\ cacheControl[n][s].dirty = CLEAN
        /\ ~has(argo_write_buffer[n], s)

\* the bytes of slot s in the cache and in the twin pages of node n
SlotBytes(s) == (s * pagesize) .. ((s + 1) * pagesize - 1)
LineContents(cd, n, s) == [o \in SlotBytes(s) |-> cd[n][o]]

DirtyIsValid ==
    \A n \in Nodes, s \in Slots :
        cacheControl[n][s].dirty = DIRTY => cacheControl[n][s].state = VALID

\* a step that makes slot s DIRTY leaves in the twin the contents the line
\* has at that step
TwinTaken(n, s) ==
    cacheControl[n][s].dirty = CLEAN /\ cacheControl'[n][s].dirty = DIRTY
        => /\ LineContents(pagecopy', n, s) = LineContents(cacheData, n, s)
           /\ LineContents(cacheData', n, s) = LineContents(cacheData, n, s)

\* a step that leaves slot s DIRTY leaves its twin as it is
TwinKept(n, s) ==
    cacheControl[n][s].dirty = DIRTY /\ cacheControl'[n][s].dirty = DIRTY
        => LineContents(pagecopy', n, s) = LineContents(pagecopy, n, s)

\* C21: a DIRTY slot is VALID, and its twin holds the contents the line had
\* when the slot last became DIRTY
C21_DirtyValidTwin ==
    /\ []DirtyIsValid
    /\ [][\A n \in Nodes, s \in Slots : TwinTaken(n, s) /\ TwinKept(n, s)]_vars

\* C21, the case: a slot became DIRTY with a line that holds a byte another
\* node stored, and its twin holds that byte
C21_Witness ==
    \E n \in Nodes, s \in Slots :
        /\ cacheControl[n][s].dirty = DIRTY
        /\ cacheControl[n][s].state = VALID
        /\ LineContents(pagecopy, n, s) = LineContents(cacheData, n, s)
        /\ \E o \in SlotBytes(s) : pagecopy[n][o] # 0

\* the engine state after the step
EngineAfter ==
    [cc |-> cacheControl', tc |-> touchedcache', cd |-> cacheData',
     pcp |-> pagecopy', gs |-> globalSharers', gd |-> globalData',
     vm |-> vmap', pr |-> prot', wb |-> argo_write_buffer',
     bw |-> barwindowsused']

\* the home's directory entry of the line at lineAddr says node n may keep it
HomeSaysKeep(gs, n, lineAddr) ==
    LET homenode == getHomenode(lineAddr)
        classidx == get_classification_index(lineAddr)
    IN  \/ gs[homenode][classidx + 1] = {n}
        \/ gs[homenode][classidx + 1] = {} /\ n \in gs[homenode][classidx]

\* what an acquire of node n does to its touched slot s
KeptOrInvalidated(n, s) ==
    LET lineAddr == cacheControl[n][s].tag
    IN  touchedcache[n][s] = 1 /\ lineAddr # GLOBAL_NULL =>
            IF HomeSaysKeep(globalSharers, n, lineAddr)
            THEN /\ cacheControl'[n][s].state = cacheControl[n][s].state
                 /\ touchedcache'[n][s] = 1
            ELSE /\ cacheControl'[n][s].state = INVALID
                 /\ cacheControl'[n][s].dirty = CLEAN
                 /\ touchedcache'[n][s] = 0
                 /\ prot'[n][PageOf(lineAddr)] = PROT_NONE

\* node n holds no VALID copy of a page whose home has another node as writer
NoCopyOfWritten(cc, gs, n) ==
    \A s \in Slots :
        cc[n][s].state = VALID /\ cc[n][s].tag # GLOBAL_NULL
            => gs[getHomenode(cc[n][s].tag)]
                 [get_classification_index(cc[n][s].tag) + 1] \subseteq {n}

\* C22: an acquire of node n keeps a touched line if and only if the home's
\* directory has n as the only writer, or no writer and n as a sharer, and
\* otherwise leaves the slot INVALID, CLEAN, untouched and PROT_NONE; after
\* the acquire n holds no VALID copy of a page another node is a writer of
C22_SelfInvalidation ==
    [][\A n \in Nodes :
          EngineAfter = argo_acquire(Engine, n)
              => /\ \A s \in Slots : KeptOrInvalidated(n, s)
                 /\ NoCopyOfWritten(cacheControl', globalSharers', n)]_vars

\* C22, the case: node n holds a VALID, touched, read-only copy of a page,
\* its own copy of the directory entry names no writer and n as a sharer, and
\* the home's entry names another node as writer, which has the page writable
C22_Witness ==
    \E n \in Nodes, s \in Slots, m \in Nodes :
        LET lineAddr == cacheControl[n][s].tag
            classidx == get_classification_index(lineAddr)
        IN  /\ m # n
            /\ lineAddr # GLOBAL_NULL
            /\ cacheControl[n][s].state = VALID
            /\ touchedcache[n][s] = 1
            /\ prot[n][PageOf(lineAddr)] = PROT_READ
            /\ MayKeep(Engine, n, classidx)
            /\ m \in globalSharers[getHomenode(lineAddr)][classidx + 1]
            /\ prot[m][PageOf(lineAddr)] = PROT_RW

\* the directory entries: the even indices of globalSharers
ClassIndices == {c \in 0 .. (classificationSize - 1) : c % 2 = 0}

\* C23: in every directory entry, at the home and in every node's own copy,
\* the writers are a subset of the sharers
C23_WritersAreSharers ==
    \A n \in Nodes, c \in ClassIndices :
        globalSharers[n][c + 1] \subseteq globalSharers[n][c]

\* C23, the case: a node is registered as writer of a page in the entry at
\* the page's home and in its own copy of the entry
C23_Witness ==
    \E n \in Nodes, s \in Slots :
        LET lineAddr == cacheControl[n][s].tag
            classidx == get_classification_index(lineAddr)
        IN  /\ cacheControl[n][s].dirty = DIRTY
            /\ getHomenode(lineAddr) # n
            /\ n \in globalSharers[getHomenode(lineAddr)][classidx + 1]
            /\ n \in globalSharers[n][classidx + 1]

\* node n is the single writer of the page at lineAddr in the home's entry
SingleWriter(n, lineAddr) ==
    LET homenode == getHomenode(lineAddr)
        classidx == get_classification_index(lineAddr)
    IN  /\ globalSharers[homenode][classidx + 1] = {n}
        /\ globalSharers[homenode][classidx] = {n}

\* node m holds a VALID cached copy of the page at lineAddr
HoldsValid(m, lineAddr) ==
    \E s \in Slots :
        cacheControl[m][s].state = VALID /\ cacheControl[m][s].tag = lineAddr

\* C24: when the home's entry of a page has writers = {n} and sharers = {n},
\* no node other than n holds a VALID cached copy of the page
C24_SingleWriter ==
    \A n \in Nodes, p \in PageNos :
        SingleWriter(n, FirstByte(p))
            => \A m \in Nodes \ {n} : ~HoldsValid(m, FirstByte(p))

\* C24, the case: a node is the single writer of a page of another node and
\* holds the page DIRTY
C24_Witness ==
    \E n \in Nodes, p \in PageNos :
        /\ SingleWriter(n, FirstByte(p))
        /\ getHomenode(FirstByte(p)) # n
        /\ \E s \in Slots :
              /\ cacheControl[n][s].tag = FirstByte(p)
              /\ cacheControl[n][s].dirty = DIRTY

(************************ write_buffer on its own **************************)
\* the largest ARGO_WRITE_BUFFER_SIZE, and the cache indices handed to add
WbMaxSize == 3
WbIndices == 4
WbSlots == 0 .. (WbIndices - 1)

WbufFrame ==
    UNCHANGED <<engineVars, progVars, lockVars, distVars, ftVars, poolVars, sbVars,
                mergeVars, mutexVars>>

\* std::sort of the first _write_back_size elements
wb_sort_first(B) ==
    [B EXCEPT !.buffer =
        sort(SubSeq(@, 1, B.write_back_size))
            \o SubSeq(@, B.write_back_size + 1, Len(@))]

\* flush_partial: the buffer after it, and the indices written back in order
wb_flush_partial(B) ==
    LET B1 == wb_sort_first(B)
    IN  [buf |-> [B1 EXCEPT !.buffer = SubSeq(@, B.write_back_size + 1, Len(@))],
         out |-> SubSeq(B1.buffer, 1, B.write_back_size)]

\* an add that does not look for the value in the buffer
wb_add_again(B, val) ==
    LET full == Len(B.buffer) >= B.max_size
        F == IF full THEN wb_flush_partial(B) ELSE [buf |-> B, out |-> << >>]
    IN  [buf |-> [F.buf EXCEPT !.buffer = Append(@, val)], out |-> F.out]

wb_add(B, val) ==
    IF has(B.buffer, val)
    THEN [buf |-> B, out |-> << >>]
    ELSE LET full == Len(B.buffer) >= B.max_size
             F == IF full THEN wb_flush_partial(B) ELSE [buf |-> B, out |-> << >>]
         IN  [buf |-> [F.buf EXCEPT !.buffer = Append(@, val)], out |-> F.out]

\* std::find and std::deque::erase of the element found
wb_erase(B, val) ==
    IF has(B.buffer, val)
    THEN LET i == CHOOSE j \in 1 .. Len(B.buffer) :
                      B.buffer[j] = val /\ \A k \in 1 .. (j - 1) : B.buffer[k] # val
         IN  [B EXCEPT !.buffer = SubSeq(@, 1, i - 1) \o SubSeq(@, i + 1, Len(@))]
    ELSE B

wb_flush(B) ==
    [buf |-> [B EXCEPT !.buffer = << >>], out |-> sort(B.buffer)]

WbAdd(val) ==
    /\ wbuf' = wb_add(wbuf, val).buf
    /\ written' = wb_add(wbuf, val).out
    /\ wbcall' = [op |-> "add", val |-> val]
    /\ WbufFrame

WbErase(val) ==
    /\ wbuf' = wb_erase(wbuf, val)
    /\ written' = << >>
    /\ wbcall' = [op |-> "erase", val |-> val]
    /\ WbufFrame

WbFlush ==
    /\ wbuf' = wb_flush(wbuf).buf
    /\ written' = wb_flush(wbuf).out
    /\ wbcall' = [op |-> "flush", val |-> 0]
    /\ WbufFrame

\* the environment holds any two sizes
WbufInitial ==
    /\ EngineInit
    /\ ProgInit(threadsPerNode, 0)
    /\ param = [barriers |-> 0]
    /\ LockVarsInit
    /\ set_memory_space(numtasks, size_of_all, 1)
    /\ FtTablesInit
    /\ PoolInit
    /\ SbInit(<< >>)
    /\ \E s \in 0 .. WbMaxSize, b \in 0 .. (WbMaxSize + 1) : WbufInit(env_init(s, b))
    /\ MergeInit
    /\ MutexInit

WbufNext ==
    \/ \E val \in WbSlots : WbAdd(val)
    \/ \E val \in WbSlots : WbErase(val)
    \/ WbFlush

WbufSpec == WbufInitial /\ [][WbufNext]_vars

(********************* claims about the write buffer ***********************)
Occurrences(buffer, val) == Cardinality({i \in 1 .. Len(buffer) : buffer[i] = val})

NoDuplicates == \A val \in WbSlots : Occurrences(wbuf.buffer, val) <= 1

AddPresentIsNoOp ==
    \A val \in WbSlots :
        wbcall'.op = "add" /\ wbcall'.val = val /\ has(wbuf.buffer, val)
            => wbuf' = wbuf /\ written' = << >>

EraseLeavesNone ==
    \A val \in WbSlots :
        wbcall'.op = "erase" /\ wbcall'.val = val
            => /\ ~has(wbuf'.buffer, val)
               /\ \A other \in WbSlots \ {val} :
                     Occurrences(wbuf'.buffer, other) = Occurrences(wbuf.buffer, other)

\* C25: no cache index is in the write buffer more than once, an add of an
\* index that is present changes nothing, and after erase(s) the buffer
\* holds no s
C25_BufferUnique ==
    /\ []NoDuplicates
    /\ [][AddPresentIsNoOp /\ EraseLeavesNone]_vars

\* C25, the case: an index in the middle of a buffer of three was erased
C25_Witness ==
    /\ wbcall.op = "erase"
    /\ Len(wbuf.buffer) = 2
    /\ wbuf.max_size = 3
    /\ wbcall.val > wbuf.buffer[1]
    /\ wbcall.val < wbuf.buffer[2]

\* after an add the buffer holds at most _max_size indices
AddKeepsBound == wbcall.op = "add" => Len(wbuf.buffer) <= wbuf.max_size

IsAscending(seq) == \A i, j \in 1 .. Len(seq) : i < j => seq[i] < seq[j]

\* an add of a new index to a full buffer writes back the first
\* _write_back_size indices of the buffer, in ascending order, and removes
\* them; the index is enqueued behind the rest
AddAtFullWritesBack ==
    \A val \in WbSlots :
        /\ wbcall'.op = "add" /\ wbcall'.val = val
        /\ ~has(wbuf.buffer, val)
        /\ Len(wbuf.buffer) >= wbuf.max_size
        => /\ Len(written') = wbuf.write_back_size
           /\ {written'[i] : i \in 1 .. Len(written')}
                 = {wbuf.buffer[i] : i \in 1 .. wbuf.write_back_size}
           /\ IsAscending(written')
           /\ wbuf'.buffer
                 = Append(SubSeq(wbuf.buffer, wbuf.write_back_size + 1,
                                 Len(wbuf.buffer)), val)

\* the write-back size that env::init leaves is at most the write buffer size
Clamped == wbuf.write_back_size <= wbuf.max_size

\* C26: for every pair of sizes that env::init accepts, the write buffer
\* never holds more than _max_size indices when add returns, and an add at a
\* full buffer first writes back the _write_back_size oldest indices in
\* ascending order
C26_BufferBounded ==
    /\ [](Clamped /\ AddKeepsBound)
    /\ [][AddAtFullWritesBack]_vars

\* C26, the case: an add at a full buffer of three wrote back its two oldest
\* indices, which were not in ascending order in the buffer
C26_Witness ==
    /\ wbcall.op = "add"
    /\ wbuf.max_size = 3
    /\ wbuf.write_back_size = 2
    /\ Len(written) = 2
    /\ Len(wbuf.buffer) = 2
    /\ wbuf.buffer[1] < written[2]

(**************************** claims about flush ***************************)
\* the cache indices in node n's write buffer
Buffered(n) == {argo_write_buffer[n][i] : i \in 1 .. Len(argo_write_buffer[n])}

\* what a flush of node n does to the line of a cache index s of its buffer
Flushed(n, s) ==
    LET tag == cacheControl[n][s].tag
    IN  /\ cacheControl'[n][s].dirty = CLEAN
        /\ prot'[n][PageOf(tag)] = PROT_READ
        /\ \A i \in 0 .. (pagesize * CACHELINE - 1) :
              cacheData[n][s * pagesize + i] # pagecopy[n][s * pagesize + i]
                  => globalData'[getHomenode(tag)][getOffset(tag) + i]
                         = cacheData[n][s * pagesize + i]

MergeOps == 8

MergeFrame ==
    UNCHANGED <<engineVars, progVars, lockVars, distVars, ftVars, poolVars, sbVars,
                wbufVars, mutexVars>>

\* load_cache_entry: MPI_Get of the page into the node's cache
MergeLoad(w) ==
    /\ mergeOps < MergeOps
    /\ line[w].state = INVALID
    /\ line' = [line EXCEPT ![w].state = VALID, ![w].dirty = CLEAN,
                            ![w].cacheData = homePage]
    /\ mergeOps' = mergeOps + 1
    /\ UNCHANGED <<homePage, stored>>
    /\ MergeFrame

\* the handler on a write to a CLEAN page: the twin is taken
MergeUpgrade(w) ==
    /\ mergeOps < MergeOps
    /\ line[w].state = VALID
    /\ line[w].dirty = CLEAN
    /\ line' = [line EXCEPT ![w].pagecopy = line[w].cacheData, ![w].dirty = DIRTY]
    /\ mergeOps' = mergeOps + 1
    /\ UNCHANGED <<homePage, stored>>
    /\ MergeFrame

\* a store to byte i of the writable page
MergeStore(w, i, v) ==
    /\ mergeOps < MergeOps
    /\ line[w].state = VALID
    /\ line[w].dirty = DIRTY
    /\ line' = [line EXCEPT ![w].cacheData[i] = v]
    /\ stored' = [stored EXCEPT ![w][i] = v]
    /\ mergeOps' = mergeOps + 1
    /\ UNCHANGED homePage
    /\ MergeFrame

\* storepageDIFF of the page by a flush, a partial flush (the line stays
\* cached) or an eviction (the line is replaced)
MergeWriteBack(w, evict) ==
    /\ mergeOps < MergeOps
    /\ line[w].state = VALID
    /\ line[w].dirty = DIRTY
    /\ homePage' = DiffPut(homePage, line[w].cacheData, line[w].pagecopy)
    /\ line' = [line EXCEPT ![w].dirty = CLEAN,
                            ![w].state = IF evict THEN INVALID ELSE VALID]
    /\ mergeOps' = mergeOps + 1
    /\ UNCHANGED stored
    /\ MergeFrame

\* self_invalidation of the CLEAN line
MergeInvalidate(w) ==
    /\ mergeOps < MergeOps
    /\ line[w].state = VALID
    /\ line[w].dirty = CLEAN
    /\ line' = [line EXCEPT ![w].state = INVALID]
    /\ mergeOps' = mergeOps + 1
    /\ UNCHANGED <<homePage, stored>>
    /\ MergeFrame

MergeInitial ==
    /\ EngineInit
    /\ ProgInit(threadsPerNode, 0)
    /\ param = [barriers |-> 0]
    /\ LockVarsInit
    /\ set_memory_space(numtasks, size_of_all, 1)
    /\ FtTablesInit
    /\ PoolInit
    /\ SbInit(<< >>)
    /\ ExtInit

MergeNext ==
    \/ \E w \in MergeNodes : MergeLoad(w)
    \/ \E w \in MergeNodes : MergeUpgrade(w)
    \/ \E w \in MergeNodes, i \in PageBytes, v \in Vals : MergeStore(w, i, v)
    \/ \E w \in MergeNodes, evict \in BOOLEAN : MergeWriteBack(w, evict)
    \/ \E w \in MergeNodes : MergeInvalidate(w)

MergeSpec == MergeInitial /\ [][MergeNext]_vars

(********************* claims about the diff write-back ********************)
StoredBytes(w) == {i \in PageBytes : stored[w][i] # NoVal}

DisjointWrites ==
    \A w1, w2 \in MergeNodes : w1 # w2 => StoredBytes(w1) \cap StoredBytes(w2) = {}

AllWrittenBack == \A w \in MergeNodes : line[w].dirty = CLEAN

\* the home page holds what every node stored
HomeHasAllWrites ==
    \A w \in MergeNodes : \A i \in StoredBytes(w) : homePage[i] = stored[w][i]

\* a write-back changes the home page exactly at the bytes that differ
\* from the twin
OnlyDiffTransmitted ==
    \A w \in MergeNodes :
        line[w].dirty = DIRTY /\ line'[w].dirty = CLEAN
            => \A i \in PageBytes :
                  homePage'[i] = IF line[w].cacheData[i] # line[w].pagecopy[i]
                                 THEN line[w].cacheData[i]
                                 ELSE homePage[i]

\* C28: when two nodes have stored to disjoint bytes of one page and both
\* have written the page back, in any order and by any of the write-back
\* paths, the home page holds the stores of both; a write-back puts only the
\* bytes that differ from the twin and leaves every other byte of the home
\* page as it was
C28_FalseSharingMerge ==
    /\ [](DisjointWrites /\ AllWrittenBack => HomeHasAllWrites)
    /\ [][OnlyDiffTransmitted]_vars

\* C28, the case: both nodes held the page DIRTY at once, each stored a
\* nonzero value to its own byte, both wrote back, and the home page holds
\* both values
C28_Witness ==
    /\ mergeOps = MergeOps
    /\ AllWrittenBack
    /\ \E i, j \in PageBytes :
          /\ i # j
          /\ StoredBytes(1) = {i}
          /\ StoredBytes(2) = {j}
          /\ homePage[i] = stored[1][i]
          /\ homePage[j] = stored[2][j]
          /\ stored[1][i] # 0
          /\ stored[2][j] # 0
          /\ line[2].state = VALID
          /\ line[2].cacheData[i] = 0

(**************** the threads of one node and the cache locks **************)
\* calls the threads of the node make in one run
LkCalls == 4

\* the node whose threads run: the home of the first page
LkNode == getHomenode(0)

\* the addresses the calls name: the first byte of the node's first page, of
\* the other node's first page and of the other node's last page, which
\* share a cache slot
LkAddrs == {FirstByte(0), FirstByte(PagesPerNode), FirstByte(2 * PagesPerNode - 1)}

\* the calls that name an address
LkAddressed == {"handler", "selective_acquire", "selective_release", "store"}

MutexFrame ==
    UNCHANGED <<pc, nbar, barriermutex, reg, shadow, acc, obs, param, lockVars,
                distVars, ftVars, poolVars, sbVars, wbufVars, mergeVars>>

\* the branch of the handler a fault at access_offset takes, read once the
\* cache lock is held
handler_branch(E, n, access_offset) ==
    LET aligned_access_offset == align_backwards(access_offset, CACHELINE * pagesize)
        startIndex == getCacheIndex(aligned_access_offset)
        startLine == (startIndex \div CACHELINE) * CACHELINE
        state == E.cc[n][startIndex].state
        tag == E.cc[n][startIndex].tag
    IN  IF getHomenode(aligned_access_offset) = n
        THEN "local"
        ELSE IF state = INVALID \/ (tag # aligned_access_offset /\ tag # GLOBAL_NULL)
        THEN "miss"
        ELSE IF E.cc[n][startLine].dirty = DIRTY
        THEN "dirty"
        ELSE "upgrade"

\* what load_cache_entry does with the semaphore: nothing when it returns
\* at once, else sem_wait, the load, sem_post
load_cache_entry_script(loadtag, loadline) ==
    IF loadtag >= size_of_all \/ loadline >= cachesize
    THEN << >>
    ELSE <<"wait", "load", "post">>

prefetch_cache_entry_script(prefetchtag, prefetchline) ==
    IF prefetchtag >= size_of_all \/ prefetchline >= cachesize
    THEN << >>
    ELSE <<"wait", "prefetch", "post">>

\* a handler whose return for a page that is DIRTY already keeps the lock
handler_rest_keeps_lock(E, n, access_offset) ==
    LET aligned_access_offset == align_backwards(access_offset, CACHELINE * pagesize)
        startIndex == getCacheIndex(aligned_access_offset)
        branch == handler_branch(E, n, access_offset)
    IN  IF branch = "local"
        THEN <<"wait", "local", "post", "unlock">>
        ELSE IF branch = "miss"
        THEN load_cache_entry_script(aligned_access_offset, startIndex % cachesize)
                 \o prefetch_cache_entry_script(
                        aligned_access_offset + CACHELINE * pagesize,
                        (startIndex + CACHELINE) % cachesize)
                 \o <<"unlock">>
        ELSE IF branch = "dirty"
        THEN << >>
        ELSE <<"wait", "upgrade", "post", "unlock">>

\* the handler after pthread_mutex_lock(&cachemutex), branch by branch
handler_rest(E, n, access_offset) ==
    LET aligned_access_offset == align_backwards(access_offset, CACHELINE * pagesize)
        startIndex == getCacheIndex(aligned_access_offset)
        branch == handler_branch(E, n, access_offset)
    IN  IF branch = "local"
        THEN <<"wait", "local", "post", "unlock">>
        ELSE IF branch = "miss"
        THEN load_cache_entry_script(aligned_access_offset, startIndex % cachesize)
                 \o prefetch_cache_entry_script(
                        aligned_access_offset + CACHELINE * pagesize,
                        (startIndex + CACHELINE) % cachesize)
                 \o <<"unlock">>
        ELSE IF branch = "dirty"
        THEN <<"unlock">>
        ELSE <<"wait", "upgrade", "post", "unlock">>

handler_script == <<"lock", "branch">>

argo_acquire_script == <<"lock", "wait", "self_invalidation", "post", "unlock">>

\* write_buffer::flush in two steps: the write-backs, which lock the data
\* windows of the homes, and the unlock of those windows
argo_release_script == <<"lock", "wait", "flush_pages", "win_unlock", "post", "unlock">>

_selective_acquire_script == <<"lock", "wait", "selective_acquire", "post", "unlock">>

_selective_release_script == <<"lock", "wait", "selective_release", "post", "unlock">>

\* an atomic store that takes the cache lock while it holds the semaphore
_store_script_with_cache_lock == <<"wait", "lock", "store", "unlock", "post">>

\* atomic::_store: the semaphore only
_store_script == <<"wait", "store", "post">>

ScriptOf(op) ==
    CASE op = "handler" -> handler_script
      [] op = "acquire" -> argo_acquire_script
      [] op = "release" -> argo_release_script
      [] op = "selective_acquire" -> _selective_acquire_script
      [] op = "selective_release" -> _selective_release_script
      [] op = "store" -> _store_script

\* the MPI calls and cache updates between sem_wait and sem_post
LkBodyOf(E, n, instr, c) ==
    LET aligned_access_offset == align_backwards(c.addr, CACHELINE * pagesize)
        startIndex == getCacheIndex(aligned_access_offset)
    IN  CASE instr = "local" -> HandlerLocal(E, n, aligned_access_offset)
          [] instr = "load" ->
                load_cache_entry(E, n, aligned_access_offset, startIndex % cachesize)
          [] instr = "prefetch" ->
                prefetch_cache_entry(E, n, aligned_access_offset + CACHELINE * pagesize,
                                     (startIndex + CACHELINE) % cachesize)
          [] instr = "upgrade" -> WriteUpgrade(E, n, aligned_access_offset)
          [] instr = "self_invalidation" -> self_invalidation(E, n)
          [] instr = "flush_pages" ->
                LET E1 == [E EXCEPT !.wb[n] = sort(@)]
                IN  PopAndWriteBack(E1, n, Len(E1.wb[n]))
          [] instr = "win_unlock" -> CloseWindows(E, n)
          [] instr = "selective_acquire" -> _selective_acquire(E, n, c.addr, c.size)
          [] instr = "selective_release" -> _selective_release(E, n, c.addr, c.size)
          [] instr = "store" -> _store(E, c.addr, 1)

LkBodies == {"local", "load", "prefetch", "upgrade", "self_invalidation",
             "flush_pages", "win_unlock", "selective_acquire",
             "selective_release", "store"}

Without(s, lock) == SelectSeq(s, LAMBDA l : l # lock)

\* the handler branches that have returned once thread t is left with rest
ReturnedAfter(t, rest) ==
    IF rest = << >> /\ lkcall[t].op = "handler"
    THEN returned \cup {lkcall[t].branch}
    ELSE returned

\* the call record once thread t is left with rest
CallAfter(t, rest) ==
    IF rest = << >> THEN [lkcall EXCEPT ![t] = NoLkCall] ELSE lkcall

\* a thread enters a call; the handler is entered by an access that the
\* page does not permit
LkCall(t, op, addr, size, write) ==
    /\ ops > 0
    /\ script[t] = << >>
    /\ op = "handler" => ~Permits(prot[LkNode][PageOf(addr)], write)
    /\ op # "handler" => ~write
    /\ op \notin LkAddressed => addr = 0
    /\ script' = [script EXCEPT ![t] = ScriptOf(op)]
    /\ lkcall' = [lkcall EXCEPT ![t] =
                     [op |-> op, addr |-> addr, size |-> size, branch |-> "none"]]
    /\ ops' = ops - 1
    /\ UNCHANGED <<engineVars, cachemutex, ibsem, holds, returned>>
    /\ MutexFrame

\* pthread_mutex_lock(&cachemutex)
LkLock(t) ==
    /\ script[t] # << >>
    /\ Head(script[t]) = "lock"
    /\ cachemutex = 0
    /\ cachemutex' = t
    /\ holds' = [holds EXCEPT ![t] = Append(@, "cachemutex")]
    /\ script' = [script EXCEPT ![t] = Tail(@)]
    /\ UNCHANGED <<engineVars, ops, ibsem, lkcall, returned>>
    /\ MutexFrame

\* the handler, holding the cache lock, takes one of its branches
LkBranch(t) ==
    /\ script[t] # << >>
    /\ Head(script[t]) = "branch"
    /\ LET rest == handler_rest(Engine, LkNode, lkcall[t].addr)
           branch == handler_branch(Engine, LkNode, lkcall[t].addr)
       IN  /\ script' = [script EXCEPT ![t] = rest]
           /\ lkcall' = IF rest = << >>
                        THEN [lkcall EXCEPT ![t] = NoLkCall]
                        ELSE [lkcall EXCEPT ![t].branch = branch]
           /\ returned' = IF rest = << >> THEN returned \cup {branch} ELSE returned
    /\ UNCHANGED <<engineVars, ops, cachemutex, ibsem, holds>>
    /\ MutexFrame

\* sem_wait(&ibsem)
LkWait(t) ==
    /\ script[t] # << >>
    /\ Head(script[t]) = "wait"
    /\ ibsem > 0
    /\ ibsem' = ibsem - 1
    /\ holds' = [holds EXCEPT ![t] = Append(@, "ibsem")]
    /\ script' = [script EXCEPT ![t] = Tail(@)]
    /\ UNCHANGED <<engineVars, ops, cachemutex, lkcall, returned>>
    /\ MutexFrame

\* the body of the call
LkBody(t) ==
    /\ script[t] # << >>
    /\ Head(script[t]) \in LkBodies
    /\ SetEngine(LkBodyOf(Engine, LkNode, Head(script[t]), lkcall[t]))
    /\ script' = [script EXCEPT ![t] = Tail(@)]
    /\ UNCHANGED <<ops, cachemutex, ibsem, lkcall, holds, returned>>
    /\ MutexFrame

\* sem_post(&ibsem)
LkPost(t) ==
    /\ script[t] # << >>
    /\ Head(script[t]) = "post"
    /\ ibsem' = ibsem + 1
    /\ holds' = [holds EXCEPT ![t] = Without(@, "ibsem")]
    /\ script' = [script EXCEPT ![t] = Tail(@)]
    /\ returned' = ReturnedAfter(t, Tail(script[t]))
    /\ lkcall' = CallAfter(t, Tail(script[t]))
    /\ UNCHANGED <<engineVars, ops, cachemutex>>
    /\ MutexFrame

\* pthread_mutex_unlock(&cachemutex)
LkUnlock(t) ==
    /\ script[t] # << >>
    /\ Head(script[t]) = "unlock"
    /\ cachemutex' = IF cachemutex = t THEN 0 ELSE cachemutex
    /\ holds' = [holds EXCEPT ![t] = Without(@, "cachemutex")]
    /\ script' = [script EXCEPT ![t] = Tail(@)]
    /\ returned' = ReturnedAfter(t, Tail(script[t]))
    /\ lkcall' = CallAfter(t, Tail(script[t]))
    /\ UNCHANGED <<engineVars, ops, ibsem>>
    /\ MutexFrame

LkOps == {"handler", "acquire", "release", "selective_acquire",
          "selective_release", "store"}

MutexInitial ==
    /\ EngineInit
    /\ ProgInit(1, LkCalls)
    /\ param = [barriers |-> 0]
    /\ OtherInit

MutexNext ==
    \/ \E t \in LkThreads, op \in LkOps, addr \in LkAddrs, write \in BOOLEAN :
          LkCall(t, op, addr, 1, write)
    \/ \E t \in LkThreads : LkLock(t)
    \/ \E t \in LkThreads : LkBranch(t)
    \/ \E t \in LkThreads : LkWait(t)
    \/ \E t \in LkThreads : LkBody(t)
    \/ \E t \in LkThreads : LkPost(t)
    \/ \E t \in LkThreads : LkUnlock(t)

MutexSpec == MutexInitial /\ [][MutexNext]_vars

(*********************** claims about the cache locks **********************)
\* thread t returns from the handler in this step
HandlerReturns(t) ==
    /\ lkcall[t].op = "handler"
    /\ script[t] # << >>
    /\ script'[t] = << >>

HoldsIbsem(t) == \E i \in 1 .. Len(holds[t]) : holds[t][i] = "ibsem"

\* C29: when the handler returns, by whichever branch, the thread holds
\* neither the cache lock nor the semaphore, the cache lock is free, and the
\* semaphore is free unless another thread of the node has taken it
C29_HandlerReleases ==
    [][\A t \in LkThreads :
          HandlerReturns(t)
              => /\ holds'[t] = << >>
                 /\ cachemutex' = 0
                 /\ \/ ibsem' = 1
                    \/ \E u \in LkThreads \ {t} :
                          \E i \in 1 .. Len(holds'[u]) : holds'[u][i] = "ibsem"]_vars

\* C29, the case: the handler has returned by each of its four branches,
\* no thread is in a call and both locks are free
C29_Witness ==
    /\ returned = {"local", "miss", "dirty", "upgrade"}
    /\ \A t \in LkThreads : script[t] = << >> /\ holds[t] = << >>
    /\ cachemutex = 0
    /\ ibsem = 1

\* thread t is in a call and cannot take its next step
Blocked(t) ==
    /\ script[t] # << >>
    /\ \/ Head(script[t]) = "lock" /\ cachemutex # 0
       \/ Head(script[t]) = "wait" /\ ibsem = 0

WindowLocked == \E h \in Nodes : barwindowsused[LkNode][h] # 0

\* the locks a thread holds were taken in the order cache lock, semaphore
LockOrder ==
    \A t \in LkThreads :
        holds[t] \in {<< >>, <<"cachemutex">>, <<"ibsem">>, <<"cachemutex", "ibsem">>}

\* a data window is locked only while a thread holds the semaphore, and no
\* thread that takes the cache lock or the semaphore has a window locked
WindowLast ==
    /\ WindowLocked => \E t \in LkThreads : HoldsIbsem(t)
    /\ \A t \in LkThreads :
          script[t] # << >> /\ Head(script[t]) \in {"lock", "wait"} /\ ~Blocked(t)
              => ~(WindowLocked /\ (HoldsIbsem(t) \/ cachemutex = t))

\* some thread that is in a call can take a step
NotAllBlocked ==
    (\E t \in LkThreads : script[t] # << >>)
        => \E t \in LkThreads : script[t] # << >> /\ ~Blocked(t)

DirectoryGrows ==
    \A n \in Nodes, c \in 0 .. (classificationSize - 1) :
        globalSharers[n][c] \subseteq globalSharers'[n][c]

\* C31: no fault, load, prefetch, acquire, release or write-back clears a
\* bit of a sharers or writers word, at the home of a page or in any
\* node's copy: every step only adds bits
C31_DirectoryMonotone == [][DirectoryGrows]_vars

\* C31, the case: the home entry of a page homed on node 1 holds node 0 and
\* node 1 as sharers and node 0 as writer, after faults of both nodes
C31_Witness ==
    \E c \in ClassIndices :
        /\ globalSharers[1][c] = {0, 1}
        /\ globalSharers[1][c + 1] = {0}

(*********************** claims about the cache slots **********************)
\* the VALID slot s of node n holds an aligned tag whose virtual page is
\* mapped to the slot's part of the backing file
SlotMapped(n, s) ==
    LET tag == cacheControl[n][s].tag
    IN  /\ tag # GLOBAL_NULL
        /\ tag % (pagesize * CACHELINE) = 0
        /\ vmap[n][PageOf(tag)] = s * pagesize

\* C32: every VALID slot holds a tag that is a multiple of the line size,
\* and the virtual page of that tag is mapped to the slot's offset in the
\* backing file, so that no second address is VALID in the slot
C32_ValidSlotMapped ==
    \A n \in Nodes, s \in Slots :
        cacheControl[n][s].state = VALID => SlotMapped(n, s)

\* C32, the case: a slot that was loaded, evicted and loaded with another
\* page is VALID, while the page it held before is still mapped to it
C32_Witness ==
    \E n \in Nodes, s \in Slots, p \in PageNos :
        /\ cacheControl[n][s].state = VALID
        /\ p # PageOf(cacheControl[n][s].tag)
        /\ vmap[n][p] = s * pagesize
        /\ prot[n][p] = PROT_NONE

(***************** claims about the acquire of try_lock ********************)
\* the exchange of try_lock returns the word it found and leaves locked
ExchangesLocked(n) ==
    pc[Main(n)] = "try" /\ reg[n].stage = "op" /\ reg'[n].stage = "idle"
        => /\ reg'[n].out = HomeWord(Engine, param.obj)
           /\ HomeWord(EngineAfter, param.obj) = locked

\* try_lock returns false exactly when it found locked; when it found the
\* id of another node it makes a backend acquire, else it leaves the cache
\* as it is
AcquiresUnlessOwn(n) ==
    LET old == reg[n].out
    IN  pc[Main(n)] = "try" /\ reg[n].stage = "idle" /\ pc'[Main(n)] # "try"
            => /\ pc'[Main(n)] = "run" <=> old = locked
               /\ old \in {locked, n, init} => EngineAfter = Engine
               /\ old \notin {locked, n, init}
                     => EngineAfter = argo_acquire(Engine, n)

\* the store of unlock puts the node's id into the word when the node has
\* written back every page it had in its write buffer
StoresAfterRelease(n) ==
    reg[n].op = "store" /\ reg[n].stage = "op" /\ reg'[n].stage = "idle"
        => /\ argo_write_buffer[n] = << >>
           /\ HomeWord(Engine, param.obj) = locked
           /\ HomeWord(EngineAfter, param.obj) = n

\* C33: try_lock exchanges locked into the lock word and succeeds exactly
\* when the word was not locked; it makes a backend acquire unless the word
\* held the node's own id or init; unlock releases before it stores the
\* node's id, so the word shows a node's id only once the node's write buffer
\* is written back, and a node that finds another node's id acquires
C33_AcquireElision ==
    [][\A n \in Nodes :
          ExchangesLocked(n) /\ AcquiresUnlessOwn(n) /\ StoresAfterRelease(n)]_vars

\* C33, the case: a node is in the critical section having found the id of
\* the other node in the lock word, after it had held the lock itself
C33_Witness ==
    \E n \in Nodes :
        /\ pc[Main(n)] = "cs"
        /\ reg[n].out \in Nodes \ {n}
        /\ reg[n].wins > 0

(******************** claims about the handovers ***************************)
\* unlock of thread t keeps the lock in its NUMA node: only below
\* MAX_HANDOVER, and the handover is counted; else the count starts again
\* and the node_lock is given up
LocalHandover(t) ==
    LET n == NodeOf(t)
    IN  pc[t] = "co.unlock" /\ pc'[t] # "co.unlock"
            => IF nodelockowner'[n] = nodelockowner[n]
               THEN /\ handovers[n] < MAX_HANDOVER
                    /\ handovers'[n] = handovers[n] + 1
                    /\ pc'[t] # "co.node"
               ELSE /\ handovers'[n] = 0
                    /\ nodelockowner'[n] = NO_OWNER
                    /\ pc'[t] = "co.node"

\* unlock of thread t past the node_lock keeps the global lock in its
\* ArgoDSM node: only below MAX_HANDOVER_NODELOCK, and the handover is
\* counted; else the count starts again, the flag is cleared and the global
\* lock is given up
NodeHandover(t) ==
    LET n == NodeOf(t)
    IN  pc[t] = "co.node" /\ pc'[t] # "co.node"
            => IF has_global_lock'[n]
               THEN /\ numahandover[n] < MAX_HANDOVER_NODELOCK
                    /\ numahandover'[n] = numahandover[n] + 1
                    /\ pc'[t] = "tk.unlock"
               ELSE /\ numahandover'[n] = 0
                    /\ pc'[t] = "g.unlock"

\* the counts change in unlock only
CountedInUnlock ==
    \A n \in Nodes :
        /\ handovers'[n] # handovers[n]
              => \E t \in Threads : NodeOf(t) = n /\ pc[t] = "co.unlock"
        /\ numahandover'[n] # numahandover[n]
              => \E t \in Threads : NodeOf(t) = n /\ pc[t] = "co.node"

HandoversBounded ==
    \A n \in Nodes :
        /\ handovers[n] \in 0 .. MAX_HANDOVER
        /\ numahandover[n] \in 0 .. MAX_HANDOVER_NODELOCK

\* a thread of node n is inside global_lock->lock() after the exchange that
\* took the lock, or inside global_lock->unlock() before its store is done
TakingGlobal(n) ==
    \E t \in Threads :
        NodeOf(t) = n /\ pc[t] = "g.ret" /\ reg[n].stage = "idle"
                      /\ reg[n].out # locked
GivingGlobal(n) ==
    \E t \in Threads :
        /\ NodeOf(t) = n
        /\ \/ pc[t] = "g.unlock"
           \/ pc[t] = "tk.unlock" /\ reg[n].stage # "idle"

\* the flag is set on one node at most and only while the lock word is
\* locked; the word is locked only while a node has the flag set or is
\* inside lock() or unlock() of the global lock
FlagFollowsGlobalLock ==
    /\ \A n \in Nodes :
          has_global_lock[n]
              => /\ HomeWord(Engine, param.obj) = locked
                 /\ \A m \in Nodes \ {n} :
                       ~has_global_lock[m] /\ ~TakingGlobal(m) /\ ~GivingGlobal(m)
    /\ HomeWord(Engine, param.obj) = locked
          => \E n \in Nodes :
                has_global_lock[n] \/ TakingGlobal(n) \/ GivingGlobal(n)

\* C34: the lock is handed over within the NUMA node at most MAX_HANDOVER
\* times in a row before the node_lock is released, and at the node_lock at
\* most MAX_HANDOVER_NODELOCK times in a row before the global lock is
\* released; a node has the global lock while its has_global_lock is set
C34_HandoverBounds ==
    /\ [](HandoversBounded /\ FlagFollowsGlobalLock)
    /\ [][/\ \A t \in Threads : LocalHandover(t) /\ NodeHandover(t)
          /\ CountedInUnlock]_vars

\* C34, the case: a thread unlocks while another waits for the local lock
\* and MAX_HANDOVER handovers were made
C34_Witness ==
    \E t \in Threads :
        /\ pc[t] = "co.unlock"
        /\ is_contended(t, NodeOf(t))
        /\ handovers[NodeOf(t)] = MAX_HANDOVER

(********************** claims about the progress **************************)
\* thread t is inside lock()
InLock(t) ==
    \/ pc[t] \in LockPcs /\ local[t].ret = "co.owner"
    \/ pc[t] \in {"co.owner", "tk.take", "tk.spin", "co.setowner", "g.try",
                  "g.ret"}

\* C35 as stated: every thread that calls lock() acquires the lock
C35_CohortProgress == \A t \in Threads : InLock(t) ~> InCs(t)

\* a node that has the global lock gives it up
GlobalGivenUp == \A n \in Nodes : has_global_lock[n] ~> ~has_global_lock[n]

\* a thread stays inside lock() only if another node takes the global lock
\* again and again
AcquiresUnlessOvertaken ==
    \A t \in Threads :
        \/ []<>(~InLock(t))
        \/ []<>(\E m \in Nodes \ {NodeOf(t)} : TakingGlobal(m))

\* C35 amended: a node gives up the global lock although its threads keep
\* calling lock(), and a thread that calls lock() acquires the lock unless
\* other nodes take the global lock again and again
C35_CohortProgressUnlessOvertaken == GlobalGivenUp /\ AcquiresUnlessOvertaken

\* C35, the case: the exchange of node 1 found the lock word locked while
\* node 0 has the global lock for its second turn at the node_lock
C35_Witness ==
    /\ pc[Main(1)] = "g.ret"
    /\ reg[1].stage = "idle"
    /\ reg[1].out = locked
    /\ has_global_lock[0]
    /\ in_counter[0] = 2

(******************* claims about the offsets table ************************)
\* the next free offset of node n, in the window of node n
NextFree(n) == global_offsets_tbl[n][n]

\* the next free offset of a node changes only by a compare-and-swap of
\* first_touch that found the offset it expected, and then by granularity
OffsetsStep ==
    \A n \in FtNodes :
        global_offsets_tbl'[n][n] # global_offsets_tbl[n][n] =>
            /\ global_offsets_tbl'[n][n] = global_offsets_tbl[n][n] + granularity
            /\ \E r \in FtNodes :
                  /\ ftl[r].pc = "ft.try"
                  /\ ftl[r].n = n
                  /\ ftl[r].offset = global_offsets_tbl[n][n]
                  /\ ftl'[r].succeeded
                  /\ ftl'[r].homenode = n
                  /\ ftl'[r].result = ftl[r].offset

\* the next free offset is a multiple of granularity up to size_per_node
OffsetsInRange ==
    \A n \in FtNodes :
        /\ NextFree(n) % granularity = 0
        /\ NextFree(n) <= size_per_node

\* window r holds the home node and the offset of page p
Assigned(r, p) ==
    /\ global_owners_dir[r][3 * p] # global_null
    /\ global_owners_dir[r][3 * p + 1] # global_null
BackingOf(r, p) ==
    <<global_owners_dir[r][3 * p], global_owners_dir[r][3 * p + 1]>>

\* an assigned offset is a multiple of granularity below the next free
\* offset of its home node and below size_per_node, and no two pages have
\* the same home node and offset
AssignedOnce ==
    \A r \in FtNodes, p \in FtPageNos :
        Assigned(r, p) =>
            /\ BackingOf(r, p)[1] \in FtNodes
            /\ BackingOf(r, p)[2] % granularity = 0
            /\ BackingOf(r, p)[2] < NextFree(BackingOf(r, p)[1])
            /\ BackingOf(r, p)[2] < size_per_node
            /\ \A q \in FtPageNos \ {p}, u \in FtNodes :
                  Assigned(u, q) => BackingOf(u, q) # BackingOf(r, p)

StaticPolicies == {"naive", "cyclic", "skew_mapp", "prime_mapp"}
\* the page-aligned addresses of the global memory
PageAddrs == {a \in 0 .. (total_size - 1) : a % granularity = 0}

\* homenode and local_offset of a policy
HomeBy(policy, ptr) ==
    CASE policy = "naive" -> naive_homenode(ptr)
      [] policy = "cyclic" -> cyclic_homenode(ptr)
      [] policy = "skew_mapp" -> skew_mapp_homenode(ptr)
      [] policy = "prime_mapp" -> prime_mapp_homenode(ptr)
OffsetBy(policy, ptr) ==
    CASE policy = "naive" -> naive_local_offset(ptr)
      [] policy = "cyclic" -> cyclic_local_offset(ptr)
      [] policy = "skew_mapp" -> skew_mapp_local_offset(ptr)
      [] policy = "prime_mapp" -> prime_mapp_local_offset(ptr)

\* the policy gives the page at a a backing location
Backed(policy, a) ==
    /\ HomeBy(policy, a) \in 0 .. (nodes - 1)
    /\ OffsetBy(policy, a) \in 0 .. (size_per_node - 1)

\* no two pages that the policy gives a backing location share it
Injective(policy) ==
    \A a, b \in PageAddrs :
        a # b /\ Backed(policy, a) /\ Backed(policy, b) =>
            <<HomeBy(policy, a), OffsetBy(policy, a)>>
                # <<HomeBy(policy, b), OffsetBy(policy, b)>>

\* C37: under each static policy two different pages never have the same
\* home node and offset
C37_InjectivePolicies == \A policy \in StaticPolicies : Injective(policy)

\* C37, the case: a policy was asked about a page beyond the first band of
\* a memory of several nodes, and another page has the same home node
C37_Witness ==
    /\ looked.policy \in StaticPolicies \ {"naive"}
    /\ nodes > 1
    /\ looked.ptr \in PageAddrs
    /\ looked.ptr >= nodes * pageblock
    /\ Backed(looked.policy, looked.ptr)
    /\ \E b \in PageAddrs \ {looked.ptr} :
          /\ Backed(looked.policy, b)
          /\ HomeBy(looked.policy, b) = looked.homenode

(****************** claims about the selective operations ******************)
\* the pages that overlap [addr, addr + size)
PagesOfRange(addr, size) ==
    {p \in PageNos : FirstByte(p) < addr + size /\ FirstByte(p + 1) > addr}

\* slot s of node n caches a page of the range
CachesRange(n, s, addr, size) ==
    /\ cacheControl[n][s].tag # GLOBAL_NULL
    /\ PageOf(cacheControl[n][s].tag) \in PagesOfRange(addr, size)

\* the step leaves every slot of node n that caches no page of the range as
\* it is and in the write buffer if it was there, and changes the home
\* memory only where a page of the range lives that node n caches
OnlyRangeTouched(n, addr, size) ==
    /\ \A s \in Slots :
          ~CachesRange(n, s, addr, size) =>
              /\ cacheControl'[n][s] = cacheControl[n][s]
              /\ has(argo_write_buffer[n], s) => has(argo_write_buffer'[n], s)
    /\ \A a \in Addrs :
          globalData'[getHomenode(a)][getOffset(a)]
              # globalData[getHomenode(a)][getOffset(a)] =>
                  CachesRange(n, getCacheIndex(a), addr, size)
                      /\ PageOf(cacheControl[n][getCacheIndex(a)].tag) = PageOf(a)

\* C38: selective_release and selective_acquire of [addr, addr + size) write
\* back, erase from the write buffer and invalidate only slots that cache a
\* page of the range, and write only to the home addresses of such pages
C38_SelectiveFrame ==
    [][\A n \in Nodes, addr \in CacheAddrs, size \in 1 .. MaxRange :
          /\ addr + size <= size_of_all
          /\ \/ EngineAfter = _selective_release(Engine, n, addr, size)
             \/ EngineAfter = _selective_acquire(Engine, n, addr, size)
          => OnlyRangeTouched(n, addr, size)]_vars

\* C38, the case: a line is CLEAN and out of the write buffer although a
\* byte of it differs from the twin and from the home memory, which the home
\* node never touched: four operations, the last a selective operation on
\* another page of the same cache index
C38_Witness ==
    \E n \in Nodes, s \in Slots :
        LET tag == cacheControl[n][s].tag
        IN  /\ ops = CacheOps - 4
            /\ tag # GLOBAL_NULL
            /\ getHomenode(tag) # n
            /\ cacheControl[n][s].state = VALID
            /\ cacheControl[n][s].dirty = CLEAN
            /\ ~has(argo_write_buffer[n], s)
            /\ prot[getHomenode(tag)][PageOf(tag)] = PROT_NONE
            /\ \E i \in 0 .. (pagesize - 1) :
                  /\ cacheData[n][s * pagesize + i] # pagecopy[n][s * pagesize + i]
                  /\ globalData[getHomenode(tag)][getOffset(tag) + i]
                        # cacheData[n][s * pagesize + i]

(********************* claims about the barrier mutex **********************)
\* the thread of node n between its successful trylock of barriermutex and
\* the second pthread_barrier_wait is the one that holds barriermutex
WinnerHolds ==
    \A t \in Threads :
        pc[t] \in {"mpi", "si"} => barriermutex[NodeOf(t)] = t

\* while threads of node n are past the trylock of an episode, one thread
\* of the node holds barriermutex
OneWinner ==
    \A n \in Nodes :
        (\E t \in ThreadsOf(n) : pc[t] \in {"mpi", "si", "wait2"})
            => barriermutex[n] \in ThreadsOf(n)

\* the flush and the self-invalidation of a barrier are steps of the holder
HolderWorks ==
    \A n \in Nodes :
        (\E t \in ThreadsOf(n) : pc[t] = "wait1" /\ pc'[t] = "mpi")
            => EngineAfter = flush(Engine, n) /\ barriermutex'[n] \in ThreadsOf(n)

\* barriermutex is unlocked by the thread that holds it
OnlyHolderUnlocks ==
    \A n \in Nodes :
        barriermutex[n] # NoThread /\ barriermutex'[n] = NoThread
            => pc[barriermutex[n]] = "exit" /\ pc'[barriermutex[n]] = "run"

\* no thread of node n is inside a barrier
BarrierOver(n) == \A t \in ThreadsOf(n) : pc[t] = "run"

FreeWhenOver ==
    \A n \in Nodes : BarrierOver(n) => barriermutex[n] = NoThread

\* what holds of barriermutex whatever the comparison of line 1032 reads
BarrierMutexTaken ==
    /\ [](WinnerHolds /\ OneWinner /\ FreeWhenOver)
    /\ [][HolderWorks]_vars

\* C39: in every barrier one thread of each node takes barriermutex and
\* flushes, enters the cluster barrier and self-invalidates; only that
\* thread unlocks barriermutex, and barriermutex is free when the barrier is
\* over
C39_BarrierMutex ==
    /\ [](WinnerHolds /\ OneWinner /\ FreeWhenOver)
    /\ [][HolderWorks /\ OnlyHolderUnlocks]_vars

\* C39, the case: every thread has returned from MaxBarriers barriers
C39_Witness ==
    /\ numtasks > 1
    /\ \A t \in Threads : pc[t] = "run" /\ nbar[t] = MaxBarriers
    /\ \A n \in Nodes : barriermutex[n] = NoThread

(************* the atomic operations and the serializer ibsem **************)
\* the largest operand size, in bytes, a call names
MaxAtomicSize == 8

AtomicSizes == 0 .. MaxAtomicSize

\* the operations the threads of the node call in one run
SizedCalls == 3

\* the words the operations name: one in the node's own memory, one in the
\* other node's
SizedAddrs == {FirstByte(0), FirstByte(PagesPerNode)}

\* the MPI integer type of exactly size bytes; any other size throws
\* std::invalid_argument
fitting_mpi_int(size) ==
    CASE size = 1 -> "MPI_INT8_T"
      [] size = 2 -> "MPI_INT16_T"
      [] size = 4 -> "MPI_INT32_T"
      [] size = 8 -> "MPI_INT64_T"
      [] OTHER -> "invalid_argument"

\* a fitting_mpi_int that accepts no size at all
fitting_mpi_int_none(size) == "invalid_argument"

\* the four operations: sem_wait, fitting_mpi_int, the one-sided operation
\* between MPI_Win_lock and MPI_Win_unlock, sem_post
_exchange_script == <<"wait", "fitting_mpi_int", "exchange", "post">>
_store_sized_script == <<"wait", "fitting_mpi_int", "put", "post">>
_load_script == <<"wait", "fitting_mpi_int", "get", "post">>
_compare_exchange_script == <<"wait", "fitting_mpi_int", "compare_and_swap", "post">>

SizedOps == {"_exchange", "_store", "_load", "_compare_exchange"}

SizedScriptOf(op) ==
    CASE op = "_exchange" -> _exchange_script
      [] op = "_store" -> _store_sized_script
      [] op = "_load" -> _load_script
      [] op = "_compare_exchange" -> _compare_exchange_script

SizedBodies == {"exchange", "put", "get", "compare_and_swap"}

\* the one-sided operation of the call on the word at obj
SizedBodyOf(E, instr, obj, desired, expected) ==
    CASE instr = "exchange" -> _exchange(E, obj, desired)
      [] instr = "put" -> _store(E, obj, desired)
      [] instr = "get" -> E
      [] instr = "compare_and_swap" -> _compare_exchange(E, obj, desired, expected)

\* a thread calls one of the four operations with an operand of size bytes
SizedCall(t, op, addr, size) ==
    /\ ops > 0
    /\ script[t] = << >>
    /\ script' = [script EXCEPT ![t] = SizedScriptOf(op)]
    /\ lkcall' = [lkcall EXCEPT ![t] =
                     [op |-> op, addr |-> addr, size |-> size, branch |-> "none"]]
    /\ ops' = ops - 1
    /\ UNCHANGED <<engineVars, cachemutex, ibsem, holds, returned>>
    /\ MutexFrame

\* MPI_Datatype t_type = fitting_mpi_int(size): the exception leaves the
\* operation at once, and no handler on the way out posts the semaphore
SizedType(t) ==
    /\ script[t] # << >>
    /\ Head(script[t]) = "fitting_mpi_int"
    /\ IF fitting_mpi_int(lkcall[t].size) = "invalid_argument"
       THEN /\ script' = [script EXCEPT ![t] = << >>]
            /\ lkcall' = [lkcall EXCEPT ![t] = NoLkCall]
            /\ returned' = returned \cup {"invalid_argument"}
       ELSE /\ script' = [script EXCEPT ![t] = Tail(@)]
            /\ UNCHANGED <<lkcall, returned>>
    /\ UNCHANGED <<engineVars, ops, cachemutex, ibsem, holds>>
    /\ MutexFrame

\* MPI_Win_lock, the operation, MPI_Win_unlock
SizedBody(t, desired, expected) ==
    /\ script[t] # << >>
    /\ Head(script[t]) \in SizedBodies
    /\ SetEngine(SizedBodyOf(Engine, Head(script[t]), lkcall[t].addr,
                             desired, expected))
    /\ script' = [script EXCEPT ![t] = Tail(@)]
    /\ UNCHANGED <<ops, cachemutex, ibsem, lkcall, holds, returned>>
    /\ MutexFrame

SizedNext ==
    \/ \E t \in LkThreads, op \in SizedOps, addr \in SizedAddrs, size \in AtomicSizes :
          SizedCall(t, op, addr, size)
    \/ \E t \in LkThreads : LkWait(t)
    \/ \E t \in LkThreads : SizedType(t)
    \/ \E t \in LkThreads, desired \in 0 .. MaxVal, expected \in 0 .. MaxVal :
          SizedBody(t, desired, expected)
    \/ \E t \in LkThreads : LkPost(t)

SizedInitial ==
    /\ EngineInit
    /\ ProgInit(1, SizedCalls)
    /\ param = [barriers |-> 0]
    /\ OtherInit

SizedSpec == SizedInitial /\ [][SizedNext]_vars

\* thread t leaves its operation in this step, by return or by exception
SizedExit(t) == script[t] # << >> /\ script'[t] = << >>

\* a thread that is in no operation holds nothing
IdleHoldsNothing == \A t \in LkThreads : script[t] = << >> => holds[t] = << >>

\* the operations that return post the semaphore they took
ReturnPosts ==
    [][\A t \in LkThreads :
          SizedExit(t) /\ fitting_mpi_int(lkcall[t].size) # "invalid_argument"
              => holds'[t] = << >> /\ ibsem' = ibsem + 1]_vars

\* C40: every exit of _exchange, _store, _load and _compare_exchange, the
\* std::invalid_argument of an unsupported operand size included, leaves the
\* calling thread without the serializer ibsem
C40_SerializerReleased ==
    /\ []IdleHoldsNothing
    /\ [][\A t \in LkThreads : SizedExit(t) => ~HoldsIbsem(t)']_vars

\* C40, the case: an operation has thrown std::invalid_argument and its
\* thread is in no operation
C40_Witness ==
    /\ "invalid_argument" \in returned
    /\ \E t \in LkThreads : script[t] = << >> /\ lkcall[t] = NoLkCall
    /\ \E t \in LkThreads : script[t] # << >> /\ Head(script[t]) = "wait"

=============================================================================
